---- MODULE Spec2Model ----
(***************************************************************************)
(* Streaming event engine of MoshouSapient (RTSP mode): the decoder        *)
(* (VideoStreamer.update), the two bounded queues built by CameraWorker,   *)
(* the inference stage (InferenceProcessor._target_func) and the event     *)
(* state machine (EventProcessor).                                         *)
(*                                                                         *)
(* Time is the value read from time.time(), counted in whole seconds; two  *)
(* successive readings may be equal.  A frame is the record                *)
(* [id, time]: id is the position of the frame in the decoder's output;    *)
(* the pixel buffer is never read by the state machine.  The entries of    *)
(* the ring buffer and of the recording keep id, time and the              *)
(* tripwire_alert_ids snapshot; the tracks and track_roi_status carried    *)
(* next to them are only read by the encoder's overlay.                    *)
(***************************************************************************)
EXTENDS Integers, Sequences, FiniteSets, TLC

\* ------------------------------------------------------------------ bounds
MaxFrames == 3      \* frames the decoder produces in one run
MaxTicks  == 2      \* seconds between the first and the last clock reading
StartTime == 10     \* first reading of time.time(), far above every period
MaxInfFrames == 6   \* frames the decoder produces in a run of SpecInf
MaxRecordings == 2  \* recordings handed to the encoder threads in one run
MaxFeatures == 2    \* Re-ID features collected for one recording
MaxChecks == 2      \* health checks the main thread makes in one run
MaxSupRecordings == 1  \* recordings handed off in a run of SpecSup
MaxDwellTicks == 3  \* seconds between the first and the last frame of SpecDwell
MaxSnapFrames == 5  \* frames the decoder produces in a run of SpecSnap
MaxClusterFeatures == 3  \* Re-ID features given to the clustering in SpecClu
MaxFeatFrames == 7  \* frames the decoder produces in a run of SpecFeat
MaxLockFrames == 2  \* frames the decoder produces in a run of SpecLock
MaxNotifications == 3  \* calls of schedule_notification in a run of SpecNot

\* --------------------------------------------------------- program constants
InferenceQueueSize == 2     \* Queue(maxsize=2)
QueueTimeout       == 1     \* frame_queue.get(timeout=1)
reid_interval      == 5     \* reid_interval = 5
IdentifyThreshold == 90
PersonMatchThreshold == 96  \* PERSON_MATCH_THRESHOLD = 0.96, in hundredths

TrackIds == {1}
\* bottom-centre points a track takes: right of the line, and left of it
\* inside the region of interest
Pos == {<<0, 1>>, <<2, 1>>}
\* Config.TRIPWIRE_LINE_OBJECTS: one directed line, p1 -> p2
TripP1 == <<1, 0>>
TripP2 == <<1, 2>>

\* settings the runs are checked for (seconds; TARGET_FPS in frames/second)
Configs ==
  { [pre |-> 1, post |-> 1, cooldown |-> 1, maxdur |-> 1, fps |-> 1,
     dwell |-> 0, dir |-> "both", tripwires |-> TRUE, roi |-> TRUE],
    [pre |-> 0, post |-> 0, cooldown |-> 0, maxdur |-> 1, fps |-> 1,
     dwell |-> 0, dir |-> "cross_to_left", tripwires |-> TRUE,
     roi |-> TRUE],
    [pre |-> 0, post |-> 1, cooldown |-> 1, maxdur |-> 1, fps |-> 1,
     dwell |-> 0, dir |-> "cross_to_right", tripwires |-> TRUE,
     roi |-> TRUE] }

VARIABLES
  cfg,              \* Config: the settings, fixed after start
  clock,            \* time.time()
  stopped,          \* VideoStreamer.stopped
  decoder,          \* VideoStreamThread: "reading" or "done"
  nframes,          \* frames decoded so far
  inference_queue,  \* CameraWorker.inference_queue
  event_queue,      \* CameraWorker.event_queue
  stop_event,       \* BaseProcessor.stop_event of the two processors
  shared_state,     \* CameraWorker.shared_state
  inf,              \* InferenceProcessor: pc, frame_counter, tracker session
  ep,               \* EventProcessor: its fields
  epc,              \* EventProcessor: position in _target_func, wait start
  out,              \* what the last EventProcessor step did
  hist,             \* history: last frame dequeued, hand-offs, persons seen
  gallery,          \* table persons with person_features, as committed
  events,           \* table events, as committed
  notifications,    \* recordings for which a notification was scheduled
  enc,              \* the encoder threads: position and locals
  nrec,             \* recordings handed to an encoder thread so far
  rout,             \* what the encoder thread that returned last did
  sup,              \* the main thread: position in main / RTSPRunner.run
  state_lock,       \* CameraWorker.shared_state_lock: the thread that holds it
  dn                \* DiscordNotifier: its fields, its callers' positions

\* the pipeline, the recorder and the main thread
pvars == <<cfg, clock, stopped, decoder, nframes, inference_queue, event_queue,
           stop_event, shared_state, inf, ep, epc, out, hist>>
rvars == <<gallery, events, notifications, enc, nrec, rout>>
xvars == <<state_lock, dn>>
vars == <<pvars, rvars, sup, xvars>>

\* ----------------------------------------------------------------- helpers
Max(a, b) == IF a >= b THEN a ELSE b

\* the last k elements of s (all of s when it has fewer)
LastK(s, k) == SubSeq(s, Max(1, Len(s) - k + 1), Len(s))

\* Python's seq[-k:] : the last k elements, but the whole list for k = 0
PySliceLast(s, k) == IF k = 0 THEN s ELSE LastK(s, k)

\* int(PRE_EVENT_SECONDS * TARGET_FPS * 1.5)
BufferSize(c) == (c.pre * c.fps * 3) \div 2

\* ceil(pre_event_seconds * target_fps * 1.5)
CeilBufferSize(c) == (c.pre * c.fps * 3 + 1) \div 2

\* int(TARGET_FPS * (PRE_EVENT_SECONDS + POST_EVENT_SECONDS) * 2.0)
EventQueueSize(c) == c.fps * (c.pre + c.post) * 2

\* queue.Queue.full(): 0 < maxsize <= qsize, so maxsize 0 is never full
QFull(q, maxsize) == 0 < maxsize /\ maxsize <= Len(q)

\* VideoStreamer.update: if not q.full(): q.put(item, block=False)
\* a variant of Offer that puts the item at the head of the queue
OfferFront(q, maxsize, item) ==
  IF QFull(q, maxsize) THEN q ELSE <<item>> \o q

Offer(q, maxsize, item) == IF QFull(q, maxsize) THEN q ELSE Append(q, item)

\* collections.deque(maxlen=n).append
\* a variant of DequeAppend that never evicts
DequeAppendNoEvict(d, n, x) == IF n = 0 THEN d ELSE Append(d, x)

DequeAppend(d, n, x) ==
  IF n = 0 THEN d
  ELSE IF Len(d) >= n THEN Append(Tail(d), x) ELSE Append(d, x)

\* ---------------------------------------------------------------- geometry
\* the cross product of get_point_side_of_line
SideVal(p, a, b) == (b[1] - a[1]) * (p[2] - a[2]) - (b[2] - a[2]) * (p[1] - a[1])

\* a variant of get_point_side_of_line without the value 0
SideWithoutTie(p, a, b) == IF SideVal(p, a, b) >= 0 THEN -1 ELSE 1

\* get_point_side_of_line: 1 left, -1 right, 0 on the line
get_point_side_of_line(p, a, b) ==
  IF SideVal(p, a, b) > 0 THEN -1
  ELSE IF SideVal(p, a, b) < 0 THEN 1 ELSE 0

Between(x, u, v) == (u <= x /\ x <= v) \/ (v <= x /\ x <= u)
OnSegment(p, a, b) ==
  /\ get_point_side_of_line(p, a, b) = 0
  /\ Between(p[1], a[1], b[1]) /\ Between(p[2], a[2], b[2])

\* shapely: LineString([a, b]).intersects(LineString([c, d]))
Intersects(a, b, c, d) ==
  LET o1 == get_point_side_of_line(c, a, b)
      o2 == get_point_side_of_line(d, a, b)
      o3 == get_point_side_of_line(a, c, d)
      o4 == get_point_side_of_line(b, c, d)
  IN \/ (o1 * o2 < 0 /\ o3 * o4 < 0)
     \/ OnSegment(c, a, b) \/ OnSegment(d, a, b)
     \/ OnSegment(a, c, d) \/ OnSegment(b, c, d)

\* Config.ROI_POLYGON_OBJECT.contains: the rectangle (1,0) (3,0) (3,2) (1,2)
RoiContains(p) == 1 < p[1] /\ p[1] < 3 /\ 0 < p[2] /\ p[2] < 2

\* a variant of CalculateRoiStatus that reports no track
CalculateRoiStatusNone(tracks) == <<>>

\* InferenceProcessor._calculate_roi_status
CalculateRoiStatus(tracks) == [i \in DOMAIN tracks |-> RoiContains(tracks[i])]

\* ------------------------------------------------------ event state machine
Priority(t) ==
  CASE t = "tripwire_alert" -> 2
    [] t = "dwell_alert" -> 1
    [] t = "person_detected" -> 0
    [] OTHER -> -1

\* a variant of SetEventType without the priority test
SetEventTypeAlways(e, new_type) == [e EXCEPT !.current_event_type = new_type]

\* EventProcessor._set_event_type
SetEventType(e, new_type) ==
  IF Priority(new_type) > Priority(e.current_event_type)
  THEN [e EXCEPT !.current_event_type = new_type]
  ELSE e

\* a variant of TripwireCrossed that admits every direction
TripwireCrossedAnyWay(c, last, cur) ==
  /\ last # cur
  /\ Intersects(last, cur, TripP1, TripP2)
  /\ get_point_side_of_line(last, TripP1, TripP2) # 0
  /\ get_point_side_of_line(cur, TripP1, TripP2) # 0
  /\ get_point_side_of_line(last, TripP1, TripP2)
       # get_point_side_of_line(cur, TripP1, TripP2)

\* the test of _handle_tripwire_logic for one track: did it cross the line
\* in a direction the rule admits
TripwireCrossed(c, last, cur) ==
  /\ last # cur
  /\ Intersects(last, cur, TripP1, TripP2)
  /\ LET side_before == get_point_side_of_line(last, TripP1, TripP2)
         side_after  == get_point_side_of_line(cur, TripP1, TripP2)
         crossed_to_right == side_before = 1 /\ side_after = -1
         crossed_to_left  == side_before = -1 /\ side_after = 1
     IN /\ side_before # 0 /\ side_after # 0 /\ side_before # side_after
        /\ \/ c.dir = "both"
           \/ (c.dir = "cross_to_right" /\ crossed_to_right)
           \/ (c.dir = "cross_to_left" /\ crossed_to_left)

\* the track ids for which _handle_tripwire_logic raises an alert
TripwireAlerts(e, c, tracks) ==
  IF ~c.tripwires THEN {}
  ELSE {i \in DOMAIN tracks :
          /\ i \in DOMAIN e.track_last_positions
          /\ TripwireCrossed(c, e.track_last_positions[i], tracks[i])}

\* EventProcessor._handle_tripwire_logic
HandleTripwire(e, c, tracks) ==
  IF ~c.tripwires THEN e
  ELSE LET alerts == TripwireAlerts(e, c, tracks)
           disappeared == DOMAIN e.track_last_positions \ DOMAIN tracks
           e1 == IF alerts # {} THEN SetEventType(e, "tripwire_alert") ELSE e
       IN [e1 EXCEPT
             !.track_last_positions = tracks,
             !.tripwire_alert_ids = (e.tripwire_alert_ids \cup alerts) \ disappeared]

\* a variant of DwellAlerts that does not look at the alerted mark
DwellAlertsRepeated(e, c, roi, now) ==
  IF ~c.roi THEN {}
  ELSE {i \in DOMAIN roi :
          /\ roi[i]
          /\ i \in DOMAIN e.dwell_time_trackers
          /\ now - e.dwell_time_trackers[i].start_time > c.dwell}

\* the track ids for which _handle_dwell_logic raises an alert
DwellAlerts(e, c, roi, now) ==
  IF ~c.roi THEN {}
  ELSE {i \in DOMAIN roi :
          /\ roi[i]
          /\ i \in DOMAIN e.dwell_time_trackers
          /\ ~e.dwell_time_trackers[i].alerted
          /\ now - e.dwell_time_trackers[i].start_time > c.dwell}

\* EventProcessor._handle_dwell_logic
HandleDwell(e, c, roi, now) ==
  IF ~c.roi THEN e
  ELSE LET alerts == DwellAlerts(e, c, roi, now)
           inside == {i \in DOMAIN roi : roi[i]}
           e1 == IF alerts # {} THEN SetEventType(e, "dwell_alert") ELSE e
       IN [e1 EXCEPT !.dwell_time_trackers =
             [i \in inside |->
                IF i \notin DOMAIN e.dwell_time_trackers
                THEN [start_time |-> now, alerted |-> FALSE]
                ELSE IF i \in alerts
                THEN [e.dwell_time_trackers[i] EXCEPT !.alerted = TRUE]
                ELSE e.dwell_time_trackers[i]]]

NoHandoff == [frames |-> <<>>, features |-> <<>>, type |-> "None",
              target_fps_used |-> FALSE]

\* EventProcessor._start_encoding_thread: the arguments given to the encoder
\* thread (actual_fps falls back to target_fps when the duration is not > 0)
StartEncodingThread(e, recording_segment) ==
  LET duration == recording_segment[Len(recording_segment)].time
                    - recording_segment[1].time
  IN [frames |-> recording_segment,
      features |-> e.current_event_features,
      type |-> e.current_event_type,
      target_fps_used |-> ~(duration > 0)]

\* a variant of HandoffGuard that admits a recording of one frame
HandoffGuardAny(segment) == Len(segment) > 0

\* a variant of HandoffGuard that drops a recording of two frames
HandoffGuardLong(segment) == Len(segment) > 2

\* the guard of the hand-off sites: if len(completed_segment) > 1
HandoffGuard(segment) == Len(segment) > 1

\* variants of CooldownOver: the cooldown ends at COOLDOWN_PERIOD exactly, or
\* one second late
CooldownOverInclusive(e, c, current_time) ==
  current_time - e.last_event_ended_time >= c.cooldown

CooldownOverLate(e, c, current_time) ==
  current_time - e.last_event_ended_time > c.cooldown + 1

\* current_time - self.last_event_ended_time > Config.COOLDOWN_PERIOD
CooldownOver(e, c, current_time) ==
  current_time - e.last_event_ended_time > c.cooldown

\* a variant of PersonGone with >= in place of >
PersonGoneInclusive(e, c, person_detected_now, current_time) ==
  ~person_detected_now /\ current_time - e.last_person_seen_time >= c.post

\* not person_detected_now and
\* (current_time - self.last_person_seen_time > Config.POST_EVENT_SECONDS)
PersonGone(e, c, person_detected_now, current_time) ==
  ~person_detected_now /\ current_time - e.last_person_seen_time > c.post

\* current_time - self.event_start_time > Config.MAX_EVENT_DURATION
TooLong(e, c, current_time) == current_time - e.event_start_time > c.maxdur

\* the seed of the next segment: completed_segment[-buffer_frame_count:]
SegmentSeed(c, completed_segment) ==
  PySliceLast(completed_segment, BufferSize(c))

\* a variant of FinishEvent that leaves last_event_ended_time alone
FinishEventKeepsTime(e, current_time) ==
  [e EXCEPT !.is_capturing_event = FALSE,
            !.event_recording = <<>>,
            !.current_event_features = <<>>,
            !.current_event_type = "None"]

\* _update_event_state, the branch "if not is_segmentation"
FinishEvent(e, current_time) ==
  [e EXCEPT !.is_capturing_event = FALSE,
            !.event_recording = <<>>,
            !.current_event_features = <<>>,
            !.current_event_type = "None",
            !.last_event_ended_time = current_time]

\* _update_event_state, the branch of a segmentation
StartNextSegment(e, c, completed_segment, current_time) ==
  LET seed == SegmentSeed(c, completed_segment)
  IN [e EXCEPT !.event_recording = seed,
               !.event_start_time =
                  IF seed # <<>> THEN seed[1].time ELSE current_time,
               !.current_event_features = <<>>]

\* _update_event_state, the start of an event
StartEvent(e, current_time) ==
  LET rec == e.frame_buffer
  IN [e EXCEPT !.is_capturing_event = TRUE,
               !.event_recording = rec,
               !.event_start_time =
                  IF rec # <<>> THEN rec[1].time ELSE current_time,
               !.current_event_features = <<>>]

Unchanged(e) == [ep |-> e, started |-> FALSE, ended |-> "none", flag |-> FALSE,
                 handed |-> FALSE, seg |-> <<>>, handoff |-> NoHandoff]

\* EventProcessor._update_event_state; the result carries the new fields
\* (ep), how the event ended, whether shared_state['event_ended'] was set
\* (flag), the completed segment and the hand-off to the encoder
UpdateEventState(e, c, person_detected_now, current_time) ==
  IF ~e.is_capturing_event
  THEN IF person_detected_now /\ CooldownOver(e, c, current_time)
       THEN LET e1 == SetEventType(e, "person_detected")
            IN IF e1.current_event_type # "None"
               THEN [Unchanged(StartEvent(e1, current_time))
                       EXCEPT !.started = TRUE]
               ELSE Unchanged(e1)
       ELSE Unchanged(e)
  ELSE LET completed_segment == e.event_recording
           handed == HandoffGuard(completed_segment)
           handoff == IF handed THEN StartEncodingThread(e, completed_segment)
                      ELSE NoHandoff
       IN IF PersonGone(e, c, person_detected_now, current_time)
          THEN [ep |-> FinishEvent(e, current_time),
                started |-> FALSE, ended |-> "absence", flag |-> TRUE,
                handed |-> handed, seg |-> completed_segment,
                handoff |-> handoff]
          ELSE IF TooLong(e, c, current_time)
          THEN [ep |-> StartNextSegment(e, c, completed_segment, current_time),
                started |-> FALSE, ended |-> "duration", flag |-> FALSE,
                handed |-> handed, seg |-> completed_segment,
                handoff |-> handoff]
          ELSE Unchanged(e)

\* dict.values() of a map keyed by track id, in key order
RECURSIVE MapValues(_)
MapValues(m) ==
  IF DOMAIN m = {} THEN <<>>
  ELSE LET k == CHOOSE i \in DOMAIN m : \A j \in DOMAIN m : i <= j
       IN <<m[k]>> \o MapValues([j \in DOMAIN m \ {k} |-> m[j]])

\* the element of a one-element set (used to name an intermediate result)
The(S) == CHOOSE x \in S : TRUE

\* _target_func, lines 78-98: frame_data is appended to the recording, with
\* the features last published, when capturing, to the ring buffer otherwise
RouteFrame(e, c, ss, item) ==
  LET frame_data == [id |-> item.id, time |-> item.time,
                     tripwire_alert_ids |-> e.tripwire_alert_ids]
  IN IF e.is_capturing_event
     THEN [e EXCEPT
             !.event_recording = Append(@, frame_data),
             !.current_event_features = @ \o MapValues(ss.reid_features_map)]
     ELSE [e EXCEPT
             !.frame_buffer = DequeAppend(@, BufferSize(c), frame_data)]

\* _target_func, lines 100-101
NotePerson(e, person_detected_now, current_time) ==
  IF person_detected_now
  THEN [e EXCEPT !.last_person_seen_time = current_time]
  ELSE e

\* the triggers _handle_tripwire_logic and _handle_dwell_logic raise on a frame
Triggers(e, c, ss, item) ==
  (IF TripwireAlerts(e, c, ss.tracked_objects) # {}
     THEN {"tripwire_alert"} ELSE {})
  \cup
  (IF DwellAlerts(e, c, ss.track_roi_status, item.time) # {}
     THEN {"dwell_alert"} ELSE {})

\* the body of the loop of EventProcessor._target_func for one dequeued item
\* (RTSP mode): the snapshot ss of shared_state, the tripwire and dwell
\* logic, the buffer routing and _update_event_state, in this order
ProcessItem(e, c, ss, item) ==
  The({ UpdateEventState(e4, c, ss.person_detected, item.time) :
        e4 \in { NotePerson(e3, ss.person_detected, item.time) :
        e3 \in { RouteFrame(e2, c, ss, item) :
        e2 \in { HandleDwell(e1, c, ss.track_roi_status, item.time) :
        e1 \in { HandleTripwire(e, c, ss.tracked_objects) } } } } })

\* ------------------------------------------------------------- the pipeline
NoTracks == <<>>
AllTracks == UNION {[D -> Pos] : D \in SUBSET TrackIds}

\* what one step of the EventProcessor did: the kind of step, the frame
\* taken, the state before it (was_capturing, type_before, ended_before) and
\* the result of _update_event_state
StepOut(kind, frame, e, c, r, trig, person, now) ==
  [kind |-> kind, frame |-> frame,
   was_capturing |-> e.is_capturing_event,
   type_before |-> e.current_event_type,
   ended_before |-> e.last_event_ended_time,
   started |-> r.started, ended |-> r.ended, flag |-> r.flag,
   handed |-> r.handed, seg |-> r.seg, handoff |-> r.handoff,
   trig |-> trig, person |-> person, now |-> now]

InitOut == [kind |-> "none", frame |-> 0, was_capturing |-> FALSE,
            type_before |-> "None", ended_before |-> 0, started |-> FALSE,
            ended |-> "none", flag |-> FALSE, handed |-> FALSE, seg |-> <<>>,
            handoff |-> NoHandoff, trig |-> {}, person |-> FALSE, now |-> 0]

\* ------------------------------------------------- recorder and gallery
\* encoder threads that can run at the same time
Threads == {1, 2}
\* feature vectors; neighbours are similar, 1 and 3 are not
Features == {1, 2, 3}
\* feature vectors for the clustering alone: 11 is fairly similar to 1 and
\* to 21, less than the neighbours 1 and 2 are
ClusterFeatures == {1, 2, 11, 21}
\* the lists of Re-ID features given to the clustering
ClusterLists == UNION {[1 .. n -> ClusterFeatures] : n \in 0 .. MaxClusterFeatures}
\* the lists of Re-ID features an event can carry
FeatureLists == UNION {[1 .. n -> Features] : n \in 0 .. MaxFeatures}
\* the revisions of encode_and_send_video in the repository
Impls == {"services", "components"}

\* cosine_similarity, in hundredths
cosine_similarity(feature1, feature2) ==
  IF feature1 = feature2 THEN 100
  ELSE IF feature1 - feature2 \in {-1, 1} THEN 97
  ELSE IF feature1 - feature2 \in {-10, 10} THEN 93
  ELSE 50

Range(s) == {s[i] : i \in 1 .. Len(s)}

\* list({feat.tobytes(): feat for feat in reid_features_list}.values())
RECURSIVE UniqueFeatures(_)
UniqueFeatures(s) ==
  IF s = <<>> THEN <<>>
  ELSE The({ IF s[Len(s)] \in Range(h) THEN h ELSE Append(h, s[Len(s)]) :
             h \in {UniqueFeatures(SubSeq(s, 1, Len(s) - 1))} })

\* the first of the items of 1 .. n with the highest score, 0 when n = 0
\* (a scan that keeps the item seen when its score is > the highest so far)
FirstBest(n, score) ==
  IF n = 0 THEN 0
  ELSE CHOOSE i \in 1 .. n :
         \A j \in 1 .. n : score[j] < score[i] \/ (score[j] = score[i] /\ i <= j)

\* _process_reid_and_db, lines 153-166: one feature put into the clusters
AddToClusters(clusters, feature) ==
  LET score == [i \in 1 .. Len(clusters) |->
                  cosine_similarity(feature, clusters[i][1])]
      best  == FirstBest(Len(clusters), score)
  IN IF best # 0 /\ score[best] >= PersonMatchThreshold
     THEN [clusters EXCEPT ![best] = Append(@, feature)]
     ELSE Append(clusters, <<feature>>)

\* _process_reid_and_db, lines 152-166: the clusters of an event
RECURSIVE EventClusters(_, _)
EventClusters(clusters, features) ==
  IF features = <<>> THEN clusters
  ELSE The({ EventClusters(c, Tail(features)) :
             c \in {AddToClusters(clusters, Head(features))} })

\* process_reid_and_identify_person, lines 26-40: one feature put into the
\* clusters, with the threshold written there
AddToClustersIdentify(clusters, feature) ==
  LET score == [i \in 1 .. Len(clusters) |->
                  cosine_similarity(feature, clusters[i][1])]
      best  == FirstBest(Len(clusters), score)
  IN IF best # 0 /\ score[best] >= IdentifyThreshold
     THEN [clusters EXCEPT ![best] = Append(@, feature)]
     ELSE Append(clusters, <<feature>>)

\* process_reid_and_identify_person, lines 25-40: the clusters of an event
RECURSIVE IdentifyClusters(_, _)
IdentifyClusters(clusters, features) ==
  IF features = <<>> THEN clusters
  ELSE The({ IdentifyClusters(c, Tail(features)) :
             c \in {AddToClustersIdentify(clusters, Head(features))} })

\* find_best_match_in_gallery: the first person of the list whose best
\* feature is the most similar to rep_feature, when that similarity reaches
\* the threshold; 0 for no match
find_best_match_in_gallery(rep_feature, persons) ==
  LET score == [k \in 1 .. Len(persons) |->
                  IF persons[k] = <<>> THEN -1
                  ELSE CHOOSE v \in {cosine_similarity(rep_feature, f) :
                                       f \in Range(persons[k])} :
                         \A f \in Range(persons[k]) :
                           cosine_similarity(rep_feature, f) <= v]
      best  == FirstBest(Len(persons), score)
  IN IF best # 0 /\ score[best] >= PersonMatchThreshold THEN best ELSE 0

\* _process_reid_and_db, lines 173-181: final_person_map; persons is
\* static_persons_gallery (the features of each person), map gives for each
\* cluster the place of its final person in persons
RECURSIVE FinalPersonMap(_, _, _)
FinalPersonMap(persons, map, clusters) ==
  IF clusters = <<>> THEN [persons |-> persons, map |-> map]
  ELSE The({ IF m # 0
             THEN FinalPersonMap(persons, Append(map, m), Tail(clusters))
             ELSE FinalPersonMap(Append(persons, Head(clusters)),
                                 Append(map, Len(persons) + 1), Tail(clusters)) :
             m \in {find_best_match_in_gallery(Head(clusters)[1], persons)} })

RECURSIVE Concat(_)
Concat(ss) == IF ss = <<>> THEN <<>> ELSE Head(ss) \o Concat(Tail(ss))

\* the features of the clusters whose final person is at place k, in the
\* order of the clusters
FeaturesFor(k, map, clusters) ==
  Concat([i \in 1 .. Len(clusters) |-> IF map[i] = k THEN clusters[i] ELSE <<>>])

\* _process_reid_and_db, lines 147-194: what the session holds before the
\* flush, computed from the persons loaded (snapshot): for each person
\* loaded the features added to it and the number of clusters it is the
\* final person of, the value written to sighting_count, the new persons,
\* and the place of the person of the first cluster
Reconcile(snapshot, reid_features_list) ==
  The({ The({ [n0    |-> Len(snapshot),
               adds  |-> [k \in 1 .. Len(snapshot) |->
                            FeaturesFor(k, fm.map, clusters)],
               incs  |-> [k \in 1 .. Len(snapshot) |->
                            Cardinality({i \in 1 .. Len(clusters) :
                                           fm.map[i] = k})],
               count |-> [k \in 1 .. Len(snapshot) |->
                            snapshot[k].sighting_count
                              + Cardinality({i \in 1 .. Len(clusters) :
                                               fm.map[i] = k})],
               news  |-> [k \in 1 .. Len(fm.persons) - Len(snapshot) |->
                            FeaturesFor(Len(snapshot) + k, fm.map, clusters)],
               first |-> fm.map[1]] :
              fm \in {FinalPersonMap([k \in 1 .. Len(snapshot) |->
                                        snapshot[k].features],
                                     <<>>, clusters)} }) :
        clusters \in {EventClusters(<<>>, UniqueFeatures(reid_features_list))} })

NoChanges == [n0 |-> 0, adds |-> <<>>, incs |-> <<>>, count |-> <<>>,
              news |-> <<>>, first |-> 0]

\* a commit that writes the new persons without their features
CommitNoFeatures(g, ch) ==
  g \o [k \in 1 .. Len(ch.news) |-> [features |-> <<>>, sighting_count |-> 1]]

\* db.flush() and db.commit(): the rows written by the session
Commit(g, ch) ==
  [k \in 1 .. Len(g) |->
     IF k <= ch.n0 /\ ch.incs[k] > 0
     THEN [features |-> g[k].features \o ch.adds[k],
           sighting_count |-> ch.count[k]]
     ELSE g[k]]
  \o [k \in 1 .. Len(ch.news) |->
        [features |-> ch.news[k], sighting_count |-> 1]]

\* first_person_obj.id after the flush
FirstPersonId(g, ch) ==
  IF ch.first <= ch.n0 THEN ch.first ELSE Len(g) + (ch.first - ch.n0)

\* the galleries the database file can hold when the process starts
StoredGalleries == {<<>>, <<[features |-> <<2>>, sighting_count |-> 1]>>}

\* a rollback after which the id obtained by the flush is still returned
RolledBackIdKept(g, ch) == FirstPersonId(g, ch)

\* the value _process_reid_and_db returns after a rollback (None)
RolledBackId(g, ch) == 0

\* no encoder thread has returned yet
NoRout == [rec |-> 0, impl |-> "services", notifier |-> FALSE,
           returncode |-> 0, reid |-> "none", person_id |-> 0,
           saved |-> FALSE]

\* an encoder thread that is not running
IdleEnc == [pc |-> "idle", rec |-> 0, returncode |-> 0,
            changes |-> NoChanges, reid |-> "none", person_id |-> 0,
            save_path |-> <<>>]

\* the event types a recording is handed off with
HandoffTypes == {"person_detected", "tripwire_alert"}

\* encode_and_send_video, lines 47-53: the output file is named after the
\* event type and the wall-clock time to the second
SavePath(event_type, now) == <<event_type, now>>

\* DiscordNotifier.__init__ and start, the client ready: no future pending,
\* _is_stopping False; no encoder thread in schedule_notification, stop not
\* called
InitNotifier ==
  [is_stopping |-> FALSE, pending |-> <<>>, tasks_to_wait |-> <<>>,
   accepted |-> {}, waited |-> {}, closed |-> FALSE, stop |-> "idle",
   sched |-> [t \in Threads |-> [pc |-> "idle", future |-> 0]],
   calls |-> 0]

\* CameraWorker.__init__, InferenceProcessor.__init__, EventProcessor.__init__
\* the state after construction, for the settings and the stored gallery
\* the process may start with
InitWith(configs, galleries, trackers) ==
  /\ cfg \in configs
  /\ clock = StartTime
  /\ stopped = FALSE
  /\ decoder = "reading"
  /\ nframes = 0
  /\ inference_queue = <<>>
  /\ event_queue = <<>>
  /\ stop_event = FALSE
  /\ shared_state = [person_detected |-> FALSE, tracked_objects |-> NoTracks,
                     track_roi_status |-> NoTracks,
                     reid_features_map |-> NoTracks, event_ended |-> FALSE]
  /\ inf \in {[pc |-> "check", frame_counter |-> 0, tracker |-> k,
              published |-> 0] : k \in trackers}
  /\ ep = [is_capturing_event |-> FALSE, last_person_seen_time |-> 0,
           last_event_ended_time |-> 0, event_start_time |-> 0,
           frame_buffer |-> <<>>, event_recording |-> <<>>,
           current_event_features |-> <<>>, current_event_type |-> "None",
           dwell_time_trackers |-> NoTracks, track_last_positions |-> NoTracks,
           tripwire_alert_ids |-> {}]
  /\ epc = [pc |-> "check", wait |-> StartTime]
  /\ out = InitOut
  /\ hist = [last_id |-> 0, last_time |-> 0, ever_person |-> FALSE]
  /\ gallery \in galleries
  /\ events = {}
  /\ notifications = {}
  /\ enc = [t \in Threads |-> IdleEnc]
  /\ nrec = 0
  /\ rout = NoRout
  /\ sup = [pc |-> "startup", stop_event |-> FALSE, checks |-> 0]
  /\ state_lock = "free"
  /\ dn = InitNotifier

\* the tracker session made by CameraWorker._initialize_tracker; 0 stands
\* for None, the value it returns when the construction raised
NoTracker == 0

Init == InitWith(Configs, {<<>>}, {1})

\* the readings time.time() can return after the reading clock
Readings(from) == {t \in from .. StartTime + MaxTicks : t >= clock}

\* VideoStreamer.update: process.stdout.read returns a whole frame, the frame
\* is offered to the queues and the loop test is made again
DecodeFrame(limit) ==
  /\ decoder = "reading"
  /\ nframes < limit
  /\ \E t \in Readings(clock) :
     \E item \in {[id |-> nframes + 1, time |-> t]} :
          /\ event_queue' = Offer(event_queue, EventQueueSize(cfg), item)
          /\ inference_queue' = Offer(inference_queue, InferenceQueueSize, item)
          /\ clock' = t
  /\ nframes' = nframes + 1
  /\ decoder' = IF stopped THEN "done" ELSE "reading"
  /\ UNCHANGED <<cfg, stopped, stop_event, shared_state, inf, ep, epc, out,
                 hist>>
  /\ UNCHANGED <<rvars, sup, xvars>>

Decode == DecodeFrame(MaxFrames)

\* VideoStreamer.update: the read returns short and FFmpeg has terminated
DecoderEnd ==
  /\ decoder = "reading"
  /\ decoder' = "done"
  /\ UNCHANGED <<cfg, clock, stopped, nframes, inference_queue, event_queue,
                 stop_event, shared_state, inf, ep, epc, out, hist>>
  /\ UNCHANGED <<rvars, sup, xvars>>

\* CameraWorker.stop: video_streamer.stop()
StopStreamer ==
  /\ ~stopped
  /\ stopped' = TRUE
  /\ UNCHANGED <<cfg, clock, decoder, nframes, inference_queue, event_queue,
                 stop_event, shared_state, inf, ep, epc, out, hist>>
  /\ UNCHANGED <<rvars, sup, xvars>>

\* CameraWorker.stop: processor.stop() for the two processors
StopProcessors ==
  /\ stopped
  /\ ~stop_event
  /\ stop_event' = TRUE
  /\ UNCHANGED <<cfg, clock, stopped, decoder, nframes, inference_queue,
                 event_queue, shared_state, inf, ep, epc, out, hist>>
  /\ UNCHANGED <<rvars, sup, xvars>>

\* InferenceProcessor._target_func: the loop test and the event_ended check
InfCheck ==
  /\ inf.pc = "check"
  /\ IF stop_event
     THEN /\ inf' = [inf EXCEPT !.pc = "done"]
          /\ UNCHANGED shared_state
     ELSE /\ inf' = [inf EXCEPT
                       !.pc = "get",
                       !.tracker = IF shared_state.event_ended /\ @ # NoTracker
                                   THEN @ + 1 ELSE @]
          /\ shared_state' = [shared_state EXCEPT !.event_ended = FALSE]
  /\ UNCHANGED <<cfg, clock, stopped, decoder, nframes, inference_queue, event_queue,
                 stop_event, ep, epc, out, hist>>
  /\ UNCHANGED <<rvars, sup, xvars>>

\* the reid_features_map of one frame: one feature per track
ExtractReidFeatures(tracks, frame_id) ==
  [i \in DOMAIN tracks |-> [frame |-> frame_id, track |-> i]]

\* self.tracker.update(...) if self.tracker else np.empty((0, 5)): the
\* track sets the tracker can return for a frame
TrackerUpdate(tracker) == IF tracker = NoTracker THEN {NoTracks} ELSE AllTracks

\* InferenceProcessor._target_func: one frame taken from the queue, analysed
\* and published
InfFrame ==
  /\ inf.pc = "get"
  /\ inference_queue # <<>>
  /\ \E tracks \in TrackerUpdate(inf.tracker) :
       LET item == Head(inference_queue)
           frame_counter == inf.frame_counter + 1
           reid_features_map ==
             IF DOMAIN tracks # {} /\ frame_counter % reid_interval = 0
             THEN ExtractReidFeatures(tracks, item.id) ELSE NoTracks
       IN /\ inf' = [inf EXCEPT !.pc = "check",
                                !.frame_counter = frame_counter,
                                !.published = @ + 1]
          /\ shared_state' =
               [shared_state EXCEPT
                  !.person_detected = DOMAIN tracks # {},
                  !.tracked_objects = tracks,
                  !.reid_features_map =
                     IF DOMAIN reid_features_map # {}
                     THEN reid_features_map ELSE @,
                  !.track_roi_status = CalculateRoiStatus(tracks)]
          /\ hist' = [hist EXCEPT
                        !.ever_person = @ \/ DOMAIN tracks # {}]
  /\ inference_queue' = Tail(inference_queue)
  /\ UNCHANGED <<cfg, clock, stopped, decoder, nframes, event_queue, stop_event, ep,
                 epc, out>>
  /\ UNCHANGED <<rvars, sup, xvars>>

\* InferenceProcessor._target_func: one frame taken from the queue, and an
\* exception raised while it is analysed (resize, detection, tracking or
\* feature extraction): "except Exception" logs it and the loop goes on
InfError ==
  /\ inf.pc = "get"
  /\ inference_queue # <<>>
  /\ inf' = [inf EXCEPT !.pc = "check", !.frame_counter = @ + 1]
  /\ inference_queue' = Tail(inference_queue)
  /\ UNCHANGED <<cfg, clock, stopped, decoder, nframes, event_queue, stop_event,
                 shared_state, ep, epc, out, hist>>
  /\ UNCHANGED <<rvars, sup, xvars>>

\* InferenceProcessor._target_func: frame_queue.get times out
InfTimeout ==
  /\ inf.pc = "get"
  /\ inference_queue = <<>>
  /\ inf' = [inf EXCEPT !.pc = "check"]
  /\ UNCHANGED <<cfg, clock, stopped, decoder, nframes, inference_queue, event_queue,
                 stop_event, shared_state, ep, epc, out, hist>>
  /\ UNCHANGED <<rvars, sup, xvars>>

\* EventProcessor._target_func: the loop test
EvtCheck ==
  /\ epc.pc = "check"
  /\ epc' = IF stop_event /\ event_queue = <<>>
            THEN [epc EXCEPT !.pc = "exit"]
            ELSE [pc |-> "get", wait |-> clock]
  /\ out' = InitOut
  /\ UNCHANGED <<cfg, clock, stopped, decoder, nframes, inference_queue, event_queue,
                 stop_event, shared_state, inf, ep, hist>>
  /\ UNCHANGED <<rvars, sup, xvars>>

\* EventProcessor._target_func: one item taken from the queue and processed
EvtFrame ==
  /\ epc.pc = "get"
  /\ event_queue # <<>>
  /\ \E item \in {Head(event_queue)} :
     \E r \in {ProcessItem(ep, cfg, shared_state, item)} :
        /\ ep' = r.ep
        /\ out' = StepOut("frame", item.id, ep, cfg, r,
                          Triggers(ep, cfg, shared_state, item),
                          shared_state.person_detected, item.time)
        /\ shared_state' = IF r.flag
                           THEN [shared_state EXCEPT !.event_ended = TRUE]
                           ELSE shared_state
        /\ hist' = [hist EXCEPT
                      !.last_id = item.id, !.last_time = item.time]
  /\ event_queue' = Tail(event_queue)
  /\ epc' = [epc EXCEPT !.pc = "check"]
  /\ UNCHANGED <<cfg, clock, stopped, decoder, nframes, inference_queue,
                 stop_event, inf>>
  /\ UNCHANGED <<rvars, sup, xvars>>

\* EventProcessor._target_func: except Empty, QueueTimeout seconds after the
\* get was called
EvtTimeout ==
  /\ epc.pc = "get"
  /\ event_queue = <<>>
  /\ \E t \in Readings(epc.wait + QueueTimeout) :
     \E r \in {IF ep.is_capturing_event
               THEN UpdateEventState(ep, cfg, FALSE, t)
               ELSE Unchanged(ep)} :
          /\ ep' = r.ep
          /\ out' = StepOut("timeout", 0, ep, cfg, r, {}, FALSE, t)
          /\ shared_state' = IF r.flag
                             THEN [shared_state EXCEPT !.event_ended = TRUE]
                             ELSE shared_state
          /\ clock' = t
  /\ epc' = [epc EXCEPT !.pc = "check"]
  /\ UNCHANGED <<cfg, stopped, decoder, nframes, inference_queue, event_queue,
                 stop_event, inf, hist>>
  /\ UNCHANGED <<rvars, sup, xvars>>

\* EventProcessor._target_func: after the loop, the event in progress is
\* handed to an encoder
EvtExit ==
  /\ epc.pc = "exit"
  /\ \E handed \in {ep.is_capturing_event
                        /\ HandoffGuard(ep.event_recording)} :
     \E r \in {[Unchanged(ep) EXCEPT
                  !.handed = handed,
                  !.seg = IF ep.is_capturing_event
                          THEN ep.event_recording ELSE <<>>,
                  !.handoff = IF handed
                              THEN StartEncodingThread(ep, ep.event_recording)
                              ELSE NoHandoff]} :
        out' = StepOut("exit", 0, ep, cfg, r, {}, FALSE, clock)
  /\ epc' = [epc EXCEPT !.pc = "done"]
  /\ UNCHANGED <<cfg, clock, stopped, decoder, nframes, inference_queue, event_queue,
                 stop_event, shared_state, inf, ep, hist>>
  /\ UNCHANGED <<rvars, sup, xvars>>

Next ==
  \/ Decode
  \/ DecoderEnd
  \/ StopStreamer
  \/ StopProcessors
  \/ InfCheck
  \/ InfFrame
  \/ InfTimeout
  \/ EvtCheck
  \/ EvtFrame
  \/ EvtTimeout
  \/ EvtExit

Spec == Init /\ [][Next]_vars

\* the decoder and the inference stage over a longer stream, with the
\* exceptions the analysis of a frame can raise
DecodeMore == DecodeFrame(MaxInfFrames)

InfNext ==
  \/ DecodeMore
  \/ DecoderEnd
  \/ StopStreamer
  \/ StopProcessors
  \/ InfCheck
  \/ InfFrame
  \/ InfError
  \/ InfTimeout

SpecInf == Init /\ [][InfNext]_vars

\* the decoder and the inference stage when the construction of the tracker
\* may have failed
TrkInit == InitWith({c \in Configs : c.dir = "both"}, {<<>>}, {NoTracker, 1})

SpecTrk == TrkInit /\ [][InfNext]_vars

\* ------------------------------------------------- the SharedState lock
\* threading.Lock.acquire of a "with self.state_lock:" block
\* a variant of LockFree that lets a thread in whoever holds the lock
LockAny(lock) == TRUE

\* threading.Lock: acquire returns when no thread holds the lock
LockFree(lock) == lock = "free"

\* the values of the event worker's local variables before they are read
\* from shared_state (reid_features_to_add = {} on line 88)
NoSnapshot == [person_detected |-> FALSE, tracked_objects |-> NoTracks,
               track_roi_status |-> NoTracks, reid_features_map |-> NoTracks,
               event_ended |-> FALSE]

\* what every step of the two processors leaves alone
LockFrame == UNCHANGED <<cfg, stopped, decoder, nframes, stop_event, hist,
                         rvars, sup, dn>>

\* InferenceProcessor._target_func, lines 55-60: the loop test, then the
\* thread arrives at the first "with self.state_lock:"
LkInfLoop ==
  /\ inf.pc = "check"
  /\ inf' = [inf EXCEPT !.pc = IF stop_event THEN "done" ELSE "acquire_check"]
  /\ UNCHANGED <<clock, inference_queue, event_queue, shared_state, ep, epc,
                 out, state_lock>>
  /\ LockFrame

\* line 60: the lock is acquired
LkInfAcquireCheck ==
  /\ inf.pc = "acquire_check"
  /\ LockFree(state_lock)
  /\ state_lock' = "inf"
  /\ inf' = [inf EXCEPT !.pc = "in_check"]
  /\ UNCHANGED <<clock, inference_queue, event_queue, shared_state, ep, epc,
                 out>>
  /\ LockFrame

\* lines 61-65: event_ended is read and cleared, the tracker made anew, and
\* the block is left
LkInfCheckFlag ==
  /\ inf.pc = "in_check"
  /\ inf' = [inf EXCEPT
               !.pc = "get",
               !.tracker = IF shared_state.event_ended /\ @ # NoTracker
                           THEN @ + 1 ELSE @]
  /\ shared_state' = [shared_state EXCEPT !.event_ended = FALSE]
  /\ state_lock' = "free"
  /\ UNCHANGED <<clock, inference_queue, event_queue, ep, epc, out>>
  /\ LockFrame

\* lines 67-96: a frame is taken from the queue and analysed; the thread
\* arrives at the second "with self.state_lock:"
LkInfAnalyse ==
  /\ inf.pc = "get"
  /\ inference_queue # <<>>
  /\ \E tracks \in TrackerUpdate(inf.tracker) :
       inf' = [pc |-> "acquire_publish",
               frame_counter |-> inf.frame_counter + 1,
               tracker |-> inf.tracker, published |-> inf.published,
               item |-> Head(inference_queue).id, tracks |-> tracks]
  /\ inference_queue' = Tail(inference_queue)
  /\ UNCHANGED <<clock, event_queue, shared_state, ep, epc, out, state_lock>>
  /\ LockFrame

\* line 98: the lock is acquired
LkInfAcquirePublish ==
  /\ inf.pc = "acquire_publish"
  /\ LockFree(state_lock)
  /\ state_lock' = "inf"
  /\ inf' = [inf EXCEPT !.pc = "in_publish"]
  /\ UNCHANGED <<clock, inference_queue, event_queue, shared_state, ep, epc,
                 out>>
  /\ LockFrame

\* lines 99-103: the results are written and the block is left
LkInfPublish ==
  /\ inf.pc = "in_publish"
  /\ \E reid_features_map \in
         {IF DOMAIN inf.tracks # {} /\ inf.frame_counter % reid_interval = 0
          THEN ExtractReidFeatures(inf.tracks, inf.item) ELSE NoTracks} :
       shared_state' =
         [shared_state EXCEPT
            !.person_detected = DOMAIN inf.tracks # {},
            !.tracked_objects = inf.tracks,
            !.reid_features_map =
               IF DOMAIN reid_features_map # {}
               THEN reid_features_map ELSE @,
            !.track_roi_status = CalculateRoiStatus(inf.tracks)]
  /\ inf' = [pc |-> "check", frame_counter |-> inf.frame_counter,
             tracker |-> inf.tracker, published |-> inf.published + 1]
  /\ state_lock' = "free"
  /\ UNCHANGED <<clock, inference_queue, event_queue, ep, epc, out>>
  /\ LockFrame

\* lines 56-69: an item is taken from the queue; the thread arrives at the
\* first "with self.state_lock:"
LkEvtGet ==
  /\ epc.pc = "get"
  /\ event_queue # <<>>
  /\ epc' = [pc |-> "acquire_snap", wait |-> epc.wait,
             item |-> Head(event_queue), ss |-> NoSnapshot]
  /\ event_queue' = Tail(event_queue)
  /\ UNCHANGED <<clock, inference_queue, shared_state, inf, ep, out,
                 state_lock>>
  /\ LockFrame

\* line 70: the lock is acquired
LkEvtAcquireSnap ==
  /\ epc.pc = "acquire_snap"
  /\ LockFree(state_lock)
  /\ state_lock' = "evt"
  /\ epc' = [epc EXCEPT !.pc = "in_snap"]
  /\ UNCHANGED <<clock, inference_queue, event_queue, shared_state, inf, ep,
                 out>>
  /\ LockFrame

\* lines 71-73 and 85: the three values are read and the block is left; the
\* thread goes on to the second block when an event is being captured
LkEvtSnap ==
  /\ epc.pc = "in_snap"
  /\ epc' = [epc EXCEPT
               !.pc = IF ep.is_capturing_event
                      THEN "acquire_reid" ELSE "update",
               !.ss = [@ EXCEPT
                         !.tracked_objects = shared_state.tracked_objects,
                         !.person_detected = shared_state.person_detected,
                         !.track_roi_status = shared_state.track_roi_status]]
  /\ state_lock' = "free"
  /\ UNCHANGED <<clock, inference_queue, event_queue, shared_state, inf, ep,
                 out>>
  /\ LockFrame

\* line 92: the lock is acquired
LkEvtAcquireReid ==
  /\ epc.pc = "acquire_reid"
  /\ LockFree(state_lock)
  /\ state_lock' = "evt"
  /\ epc' = [epc EXCEPT !.pc = "in_reid"]
  /\ UNCHANGED <<clock, inference_queue, event_queue, shared_state, inf, ep,
                 out>>
  /\ LockFrame

\* line 93: reid_features_map is read and the block is left
LkEvtReid ==
  /\ epc.pc = "in_reid"
  /\ epc' = [epc EXCEPT
               !.pc = "update",
               !.ss = [@ EXCEPT !.reid_features_map =
                                   shared_state.reid_features_map]]
  /\ state_lock' = "free"
  /\ UNCHANGED <<clock, inference_queue, event_queue, shared_state, inf, ep,
                 out>>
  /\ LockFrame

\* lines 75-103 without the reads: the loop body applied to the values read;
\* the thread arrives at the "with self.state_lock:" of _update_event_state
\* when the event ended
LkEvtUpdate ==
  /\ epc.pc = "update"
  /\ \E r \in {ProcessItem(ep, cfg, epc.ss, epc.item)} :
        /\ ep' = r.ep
        /\ out' = StepOut("frame", epc.item.id, ep, cfg, r,
                          Triggers(ep, cfg, epc.ss, epc.item),
                          epc.ss.person_detected, epc.item.time)
        /\ epc' = [pc |-> IF r.flag THEN "acquire_flag" ELSE "check",
                   wait |-> epc.wait]
        /\ hist' = [hist EXCEPT
                      !.last_id = epc.item.id, !.last_time = epc.item.time]
  /\ UNCHANGED <<cfg, clock, stopped, decoder, nframes, inference_queue,
                 event_queue, stop_event, shared_state, inf, rvars, sup,
                 state_lock, dn>>

\* lines 105-108: the get timed out; _update_event_state is called when an
\* event is being captured
LkEvtTimeout ==
  /\ epc.pc = "get"
  /\ event_queue = <<>>
  /\ \E t \in Readings(epc.wait + QueueTimeout) :
     \E r \in {IF ep.is_capturing_event
               THEN UpdateEventState(ep, cfg, FALSE, t)
               ELSE Unchanged(ep)} :
          /\ ep' = r.ep
          /\ out' = StepOut("timeout", 0, ep, cfg, r, {}, FALSE, t)
          /\ clock' = t
          /\ epc' = [pc |-> IF r.flag THEN "acquire_flag" ELSE "check",
                     wait |-> epc.wait]
  /\ UNCHANGED <<inference_queue, event_queue, shared_state, inf, state_lock>>
  /\ LockFrame

\* _update_event_state, line 220: the lock is acquired
LkEvtAcquireFlag ==
  /\ epc.pc = "acquire_flag"
  /\ LockFree(state_lock)
  /\ state_lock' = "evt"
  /\ epc' = [epc EXCEPT !.pc = "in_flag"]
  /\ UNCHANGED <<clock, inference_queue, event_queue, shared_state, inf, ep,
                 out>>
  /\ LockFrame

\* line 221: event_ended is set and the block is left
LkEvtSetFlag ==
  /\ epc.pc = "in_flag"
  /\ shared_state' = [shared_state EXCEPT !.event_ended = TRUE]
  /\ epc' = [epc EXCEPT !.pc = "check"]
  /\ state_lock' = "free"
  /\ UNCHANGED <<clock, inference_queue, event_queue, inf, ep, out>>
  /\ LockFrame

DecodeLock == DecodeFrame(MaxLockFrames)

LockNext ==
  \/ DecodeLock
  \/ DecoderEnd
  \/ StopStreamer
  \/ StopProcessors
  \/ LkInfLoop
  \/ LkInfAcquireCheck
  \/ LkInfCheckFlag
  \/ LkInfAnalyse
  \/ InfTimeout
  \/ LkInfAcquirePublish
  \/ LkInfPublish
  \/ EvtCheck
  \/ LkEvtGet
  \/ LkEvtAcquireSnap
  \/ LkEvtSnap
  \/ LkEvtAcquireReid
  \/ LkEvtReid
  \/ LkEvtUpdate
  \/ LkEvtTimeout
  \/ LkEvtAcquireFlag
  \/ LkEvtSetFlag
  \/ EvtExit

LockInit == InitWith({c \in Configs : c.dir = "both"}, {<<>>}, {1})

SpecLock == LockInit /\ [][LockNext]_vars

\* ------------------------------------------------ the pipeline shut down
\* EventProcessor._target_func, except Empty: the timeout of a get that was
\* called at the last reading of the clock the runs cover, once stop has
\* been signalled. It is the only timeout the thread can still take: the
\* loop test that follows finds stop_event set, and leaves the loop or finds
\* a frame to take.
EvtTimeoutStopped ==
  /\ epc.pc = "get"
  /\ event_queue = <<>>
  /\ stop_event
  /\ Readings(epc.wait + QueueTimeout) = {}
  /\ \E t \in {epc.wait + QueueTimeout} :
     \E r \in {IF ep.is_capturing_event
               THEN UpdateEventState(ep, cfg, FALSE, t)
               ELSE Unchanged(ep)} :
          /\ ep' = r.ep
          /\ out' = StepOut("timeout", 0, ep, cfg, r, {}, FALSE, t)
          /\ shared_state' = IF r.flag
                             THEN [shared_state EXCEPT !.event_ended = TRUE]
                             ELSE shared_state
          /\ clock' = t
  /\ epc' = [epc EXCEPT !.pc = "check"]
  /\ UNCHANGED <<cfg, stopped, decoder, nframes, inference_queue, event_queue,
                 stop_event, inf, hist>>
  /\ UNCHANGED <<rvars, sup, xvars>>

LiveNext ==
  \/ Decode
  \/ DecoderEnd
  \/ StopStreamer
  \/ StopProcessors
  \/ InfCheck
  \/ InfFrame
  \/ InfTimeout
  \/ EvtCheck
  \/ EvtFrame
  \/ EvtTimeout
  \/ EvtTimeoutStopped
  \/ EvtExit

\* the steps of the EventProcessor thread
EvtStep ==
  \/ EvtCheck
  \/ EvtFrame
  \/ EvtTimeout
  \/ EvtTimeoutStopped
  \/ EvtExit

LiveInit == InitWith({c \in Configs : c.dir = "both"}, {<<>>}, {1})

\* the EventProcessor thread is a started thread that the scheduler runs,
\* and none of its steps waits without a timeout: frame_queue.get returns
\* an item or raises Empty after QueueTimeout seconds, the locks it takes
\* are held by the other thread for a few assignments only, and the encoder
\* is started on a thread of its own
SpecLive == LiveInit /\ [][LiveNext]_vars /\ WF_vars(EvtStep)

\* ------------------------------------------------- the Discord notifier
\* DiscordNotifier.schedule_notification called by the encoder threads and
\* DiscordNotifier.stop called by the runner, one step per statement that
\* reads or writes _is_stopping, _pending_tasks or the client. The fields
\* accepted and waited of dn record the futures handed to the event loop and
\* the futures stop() has called result() on.
NotFrame == UNCHANGED <<pvars, rvars, sup, state_lock>>

\* schedule_notification, lines 66-69: an encoder thread enters and tests
\* _is_stopping; the call is rejected when it is set
SchedCheck(t) ==
  /\ dn.sched[t].pc = "idle"
  /\ dn.calls < MaxNotifications
  /\ dn' = [dn EXCEPT !.calls = @ + 1,
                      !.sched[t].pc = IF dn.is_stopping THEN "idle"
                                      ELSE "checked"]
  /\ NotFrame

\* schedule_notification, lines 70-71 and 74-75: with the client ready and
\* its loop running the coroutine is handed to the loop and a future
\* returned; after the client was closed the call only logs a warning
SchedSubmit(t) ==
  /\ dn.sched[t].pc = "checked"
  /\ dn' = IF dn.closed
              THEN [dn EXCEPT !.sched[t].pc = "idle"]
              ELSE [dn EXCEPT !.sched[t] = [pc |-> "submitted",
                                            future |-> dn.calls],
                              !.accepted = @ \cup {dn.calls}]
  /\ NotFrame

\* schedule_notification, lines 72-73: under _lock the future is appended
\* to _pending_tasks
SchedAppend(t) ==
  /\ dn.sched[t].pc = "submitted"
  /\ dn' = [dn EXCEPT !.pending = Append(@, dn.sched[t].future),
                      !.sched[t] = [pc |-> "idle", future |-> 0]]
  /\ NotFrame

\* stop, lines 77-79: _is_stopping is set
StopFlag ==
  /\ dn.stop = "idle"
  /\ dn' = [dn EXCEPT !.is_stopping = TRUE, !.stop = "flagged"]
  /\ NotFrame

\* stop, lines 81-82: under _lock the pending futures are copied
StopSnapshot ==
  /\ dn.stop = "flagged"
  /\ dn' = [dn EXCEPT !.tasks_to_wait = dn.pending, !.stop = "waiting"]
  /\ NotFrame

\* stop, lines 84-91: future.result() on the next copied future
StopWait ==
  /\ dn.stop = "waiting"
  /\ Cardinality(dn.waited) < Len(dn.tasks_to_wait)
  /\ dn' = [dn EXCEPT !.waited =
                        @ \cup {dn.tasks_to_wait[Cardinality(dn.waited) + 1]}]
  /\ NotFrame

\* stop, lines 93-103: every copied future waited for, the client is asked
\* to close and the bot thread joined
StopClose ==
  /\ dn.stop = "waiting"
  /\ Cardinality(dn.waited) = Len(dn.tasks_to_wait)
  /\ dn' = [dn EXCEPT !.closed = TRUE, !.stop = "done"]
  /\ NotFrame

NotNext ==
  \/ \E t \in Threads : SchedCheck(t)
  \/ \E t \in Threads : SchedSubmit(t)
  \/ \E t \in Threads : SchedAppend(t)
  \/ StopFlag
  \/ StopSnapshot
  \/ StopWait
  \/ StopClose

SpecNot == LockInit /\ [][NotNext]_vars

\* ------------------------------------------- the frames with features
\* the pipeline from the moment reid_interval - 1 frames of an empty scene,
\* all captured at StartTime, have been analysed, published and processed:
\* the next frame analysed is the first whose features are extracted
WarmFrames == reid_interval - 1

FeatInit ==
  /\ cfg \in {c \in Configs : c.dir = "both"}
  /\ clock = StartTime
  /\ stopped = FALSE
  /\ decoder = "reading"
  /\ nframes = WarmFrames
  /\ inference_queue = <<>>
  /\ event_queue = <<>>
  /\ stop_event = FALSE
  /\ shared_state = [person_detected |-> FALSE, tracked_objects |-> NoTracks,
                     track_roi_status |-> NoTracks,
                     reid_features_map |-> NoTracks, event_ended |-> FALSE]
  /\ inf = [pc |-> "check", frame_counter |-> WarmFrames, tracker |-> 1,
            published |-> WarmFrames]
  /\ ep = [is_capturing_event |-> FALSE, last_person_seen_time |-> 0,
           last_event_ended_time |-> 0, event_start_time |-> 0,
           frame_buffer |-> LastK([i \in 1 .. WarmFrames |->
                                    [id |-> i, time |-> StartTime,
                                     tripwire_alert_ids |-> {}]],
                                  BufferSize(cfg)),
           event_recording |-> <<>>,
           current_event_features |-> <<>>, current_event_type |-> "None",
           dwell_time_trackers |-> NoTracks, track_last_positions |-> NoTracks,
           tripwire_alert_ids |-> {}]
  /\ epc = [pc |-> "get", wait |-> StartTime]
  /\ out = InitOut
  /\ hist = [last_id |-> WarmFrames, last_time |-> StartTime,
             ever_person |-> FALSE]
  /\ gallery = <<>>
  /\ events = {}
  /\ notifications = {}
  /\ enc = [t \in Threads |-> IdleEnc]
  /\ nrec = 0
  /\ rout = NoRout
  /\ sup = [pc |-> "startup", stop_event |-> FALSE, checks |-> 0]
  /\ state_lock = "free"
  /\ dn = InitNotifier

DecodeFeat == DecodeFrame(MaxFeatFrames)

FeatNext ==
  \/ DecodeFeat
  \/ DecoderEnd
  \/ StopStreamer
  \/ StopProcessors
  \/ InfCheck
  \/ InfFrame
  \/ InfTimeout
  \/ EvtCheck
  \/ EvtFrame
  \/ EvtTimeout
  \/ EvtExit

SpecFeat == FeatInit /\ [][FeatNext]_vars

\* ------------------------------------------------- intra-event clustering
\* the functions that cluster the features of an event: _process_reid_and_db
\* for the recordings of a stream, process_reid_and_identify_person for the
\* results of a file
ClusterImpls == {"video_recorder", "database_service"}

\* the deduplication and the clustering applied to one feature list
ClusterEvent ==
  /\ \E features \in ClusterLists, impl \in ClusterImpls :
     \E unique \in {UniqueFeatures(features)} :
        out' = [kind |-> "clusters", impl |-> impl, features |-> features,
                unique |-> unique,
                clusters |-> IF impl = "video_recorder"
                             THEN EventClusters(<<>>, unique)
                             ELSE IdentifyClusters(<<>>, unique)]
  /\ UNCHANGED <<cfg, clock, stopped, decoder, nframes, inference_queue,
                 event_queue, stop_event, shared_state, inf, ep, epc, hist,
                 rvars, sup, xvars>>

CluNext == ClusterEvent

SpecClu == Init /\ [][CluNext]_vars

\* ------------------------------------------------- a longer ring buffer
\* the pipeline with PRE_EVENT_SECONDS = 2: frame_buffer holds three frames
PreConfigs ==
  {[c EXCEPT !.pre = 2] :
     c \in {k \in Configs : k.dir \in {"both", "cross_to_left"}}}

PreInit == InitWith(PreConfigs, {<<>>}, {1})

SpecPre == PreInit /\ [][Next]_vars

\* --------------------------------------------- the two critical sections
\* EventProcessor._target_func, lines 56-73: one item taken from the queue and
\* the first critical section, which reads tracked_objects, person_detected
\* and track_roi_status
EvtSnap ==
  /\ epc.pc = "get"
  /\ event_queue # <<>>
  /\ epc' = [pc |-> "snap", wait |-> epc.wait, item |-> Head(event_queue),
             ss |-> shared_state, published |-> inf.published]
  /\ event_queue' = Tail(event_queue)
  /\ UNCHANGED <<cfg, clock, stopped, decoder, nframes, inference_queue,
                 stop_event, shared_state, inf, ep, out, hist>>
  /\ UNCHANGED <<rvars, sup, xvars>>

\* EventProcessor._target_func, lines 75-103: the rest of the loop body; when
\* an event is being captured the second critical section reads
\* reid_features_map as it is now
EvtSnapFrame ==
  /\ epc.pc = "snap"
  /\ \E item \in {epc.item},
        ss \in {[epc.ss EXCEPT !.reid_features_map =
                                 shared_state.reid_features_map]} :
     \E r \in {ProcessItem(ep, cfg, ss, item)} :
        /\ ep' = r.ep
        /\ out' = [snap_published |-> epc.published,
                   reid_published |-> inf.published,
                   snap_reid |-> epc.ss.reid_features_map,
                   reid |-> ss.reid_features_map]
                  @@ StepOut("frame", item.id, ep, cfg, r,
                             Triggers(ep, cfg, ss, item),
                             ss.person_detected, item.time)
        /\ shared_state' = IF r.flag
                           THEN [shared_state EXCEPT !.event_ended = TRUE]
                           ELSE shared_state
        /\ hist' = [hist EXCEPT
                      !.last_id = item.id, !.last_time = item.time]
  /\ epc' = [pc |-> "check", wait |-> epc.wait]
  /\ UNCHANGED <<cfg, clock, stopped, decoder, nframes, inference_queue,
                 event_queue, stop_event, inf>>
  /\ UNCHANGED <<rvars, sup, xvars>>

DecodeSnap == DecodeFrame(MaxSnapFrames)

\* the decoder, the inference stage and the event stage while the pipeline
\* runs (no stop is requested and the stream does not end)
SnapNext ==
  \/ DecodeSnap
  \/ InfCheck
  \/ InfFrame
  \/ InfTimeout
  \/ EvtCheck
  \/ EvtSnap
  \/ EvtSnapFrame
  \/ EvtTimeout

SnapInit == InitWith({c \in Configs : c.dir = "both"}, {<<>>}, {1})

SpecSnap == SnapInit /\ [][SnapNext]_vars

\* ------------------------------------------------------- behaviour rules
\* the tracks of the frames given to _handle_tripwire_logic: two track ids,
\* bottom-centre points right of the line, left of it, on it, on its
\* extension, and left of its extension
TripIds == {1, 2}
TripPos == {<<0, 1>>, <<2, 1>>, <<1, 1>>, <<1, 3>>, <<2, 3>>}
TripTracks == UNION {[D -> TripPos] : D \in SUBSET TripIds}

\* EventProcessor._handle_tripwire_logic applied to the tracks of one frame
TripFrame ==
  /\ \E tracks \in TripTracks :
     \E e1 \in {HandleTripwire(ep, cfg, tracks)} :
        /\ ep' = e1
        /\ out' = [kind |-> "tripwire",
                   last |-> ep.track_last_positions,
                   tracks |-> tracks,
                   alerts |-> TripwireAlerts(ep, cfg, tracks),
                   ids_before |-> ep.tripwire_alert_ids,
                   type_before |-> ep.current_event_type]
  /\ UNCHANGED <<cfg, clock, stopped, decoder, nframes, inference_queue,
                 event_queue, stop_event, shared_state, inf, epc, hist,
                 rvars, sup, xvars>>

TripNext == TripFrame

\* the ROI settings: a dwell threshold of 0 or 1
DwellConfigs ==
  {[c EXCEPT !.dwell = d] : c \in {k \in Configs : k.dir = "both"},
                            d \in {0, 1}}
\* track_roi_status of one frame: the tracks seen and whether each is in
\* the ROI
RoiStatuses == UNION {[D -> BOOLEAN] : D \in SUBSET TripIds}

\* the residences as the frames show them: a track is inside from the first
\* frame that shows it in the ROI until a frame that does not; entry is the
\* time of that first frame, alerts counts the dwell alerts since
NoResidence == [inside |-> FALSE, entry |-> 0, alerts |-> 0]
Residences(before, roi, now, alerts) ==
  [i \in TripIds |->
     IF i \in DOMAIN roi /\ roi[i]
     THEN [inside |-> TRUE,
           entry |-> IF before[i].inside THEN before[i].entry ELSE now,
           alerts |-> (IF before[i].inside THEN before[i].alerts ELSE 0)
                        + (IF i \in alerts THEN 1 ELSE 0)]
     ELSE NoResidence]

\* EventProcessor._handle_dwell_logic applied to track_roi_status and the
\* capture time of one frame
DwellFrame ==
  /\ \E now \in clock .. StartTime + MaxDwellTicks, roi \in RoiStatuses :
     \E e1 \in {HandleDwell(ep, cfg, roi, now)},
        alerts \in {DwellAlerts(ep, cfg, roi, now)} :
        /\ ep' = e1
        /\ clock' = now
        /\ out' = [kind |-> "dwell", roi |-> roi, now |-> now,
                   alerts |-> alerts,
                   type_before |-> ep.current_event_type,
                   res |-> Residences(
                             IF out.kind = "dwell" THEN out.res
                             ELSE [i \in TripIds |-> NoResidence],
                             roi, now, alerts)]
  /\ UNCHANGED <<cfg, stopped, decoder, nframes, inference_queue,
                 event_queue, stop_event, shared_state, inf, epc, hist,
                 rvars, sup, xvars>>

DwellNext == DwellFrame

DwellInit == InitWith(DwellConfigs, {<<>>}, {1})

SpecDwell == DwellInit /\ [][DwellNext]_vars

SpecTrip == Init /\ [][TripNext]_vars

\* ----------------------------------------------------- encoder threads
\* the lowest encoder thread that is not running takes the next recording
Free(t) == enc[t].pc = "idle" /\ \A u \in Threads : u < t => enc[u].pc # "idle"

\* Thread(target=encode_and_send_video, args=...).start() with the five
\* parameters of the function; the early return of lines 26-28 when there
\* is no frame or the frame rate is not positive; otherwise the output file
\* is named and ffmpeg is started on it with -y.  The arguments are fixed
\* by the call; each is drawn where the function first reads it.
RecStart(t) ==
  /\ Free(t)
  /\ nrec < MaxRecordings
  /\ epc.pc # "done"
  /\ \E valid \in BOOLEAN, event_type \in HandoffTypes :
       enc' = [enc EXCEPT ![t] =
                 IF valid
                 THEN [IdleEnc EXCEPT !.pc = "encode", !.rec = nrec + 1,
                                      !.save_path = SavePath(event_type, clock)]
                 ELSE IdleEnc]
  /\ nrec' = nrec + 1
  /\ UNCHANGED <<gallery, events, notifications, rout, pvars, sup, xvars>>

\* EventProcessor._start_encoding_thread of processors/event_processor.py:
\* seven positional arguments for a function of five parameters, the thread
\* ends with a TypeError before the body runs
RecStartTypeError(t) ==
  /\ Free(t)
  /\ nrec < MaxRecordings
  /\ epc.pc # "done"
  /\ enc' = [enc EXCEPT ![t] = IdleEnc]
  /\ nrec' = nrec + 1
  /\ UNCHANGED <<gallery, events, notifications, rout, pvars, sup, xvars>>

\* the frames are written to ffmpeg and process.communicate() gives the
\* exit code; a failed write is only logged, the exit code alone tells the
\* function whether the encoder failed
RecEncode(t) ==
  /\ enc[t].pc = "encode"
  /\ \E returncode \in {0, 1} :
       enc' = [enc EXCEPT ![t].pc = "reid", ![t].returncode = returncode]
  /\ UNCHANGED <<gallery, events, notifications, nrec, rout, pvars, sup, xvars>>

\* _process_reid_and_db up to the flush: no feature gives None, otherwise
\* the persons are loaded and the changes of the session are prepared
RecReidLoad(t) ==
  /\ enc[t].pc = "reid"
  /\ \E reid_features_list \in FeatureLists :
       IF reid_features_list = <<>>
       THEN enc' = [enc EXCEPT ![t].pc = "finish"]
       ELSE \E ch \in {Reconcile(gallery, reid_features_list)} :
              enc' = [enc EXCEPT ![t].pc = "commit", ![t].changes = ch]
  /\ UNCHANGED <<gallery, events, notifications, nrec, rout, pvars, sup, xvars>>

\* db.flush(); first_person_obj.id; db.commit()
RecReidCommit(t) ==
  /\ enc[t].pc = "commit"
  /\ gallery' = Commit(gallery, enc[t].changes)
  /\ \E id \in {FirstPersonId(gallery, enc[t].changes)} :
       enc' = [enc EXCEPT ![t].pc = "finish", ![t].reid = "committed",
                          ![t].person_id = id, ![t].changes = NoChanges]
  /\ UNCHANGED <<events, notifications, nrec, rout, pvars, sup, xvars>>

\* except Exception: db.rollback(); return None
RecReidFail(t) ==
  /\ enc[t].pc = "commit"
  /\ \E id \in {RolledBackId(gallery, enc[t].changes)} :
       enc' = [enc EXCEPT ![t].pc = "finish", ![t].reid = "rolled_back",
                          ![t].person_id = id, ![t].changes = NoChanges]
  /\ UNCHANGED <<gallery, events, notifications, nrec, rout, pvars, sup, xvars>>

\* the end of encode_and_send_video: on exit code 0 the Event row is added
\* in a session of its own (saved tells whether that commit succeeded) and
\* the notification is scheduled when there is a notifier; in
\* components/event_processor.py the notification is scheduled after the
\* if, whatever the exit code
RecFinish(t) ==
  /\ enc[t].pc = "finish"
  /\ \E saved \in BOOLEAN, impl \in Impls, notifier \in BOOLEAN :
       /\ events' = IF enc[t].returncode = 0 /\ saved
                    THEN events \cup {[rec |-> enc[t].rec,
                                       person_id |-> enc[t].person_id]}
                    ELSE events
       /\ notifications' =
            IF notifier /\ (enc[t].returncode = 0 \/ impl = "components")
            THEN notifications \cup {enc[t].rec}
            ELSE notifications
       /\ rout' = [rec |-> enc[t].rec, impl |-> impl, notifier |-> notifier,
                   returncode |-> enc[t].returncode, reid |-> enc[t].reid,
                   person_id |-> enc[t].person_id,
                   saved |-> enc[t].returncode = 0 /\ saved]
  /\ enc' = [enc EXCEPT ![t] = IdleEnc]
  /\ UNCHANGED <<gallery, nrec, pvars, sup, xvars>>

RecNext ==
  \E t \in Threads :
    \/ RecStart(t)
    \/ RecStartTypeError(t)
    \/ RecEncode(t)
    \/ RecReidLoad(t)
    \/ RecReidCommit(t)
    \/ RecReidFail(t)
    \/ RecFinish(t)

\* the encoder threads under one configuration of the pipeline
RecInit == InitWith({c \in Configs : c.dir = "both"}, StoredGalleries, {1})

SpecRec == RecInit /\ [][RecNext]_vars

\* ------------------------------------------------------------------ claims
\* a step of the EventProcessor that closed a recording: an event ended by
\* absence or by duration, or the loop was left with an event in progress
Terminated ==
  \/ out.ended # "none"
  \/ (out.kind = "exit" /\ out.was_capturing)

SegDuration == out.seg[Len(out.seg)].time - out.seg[1].time

EventTypes == {"person_detected", "dwell_alert", "tripwire_alert"}

\* the frame taken was within COOLDOWN_PERIOD of the end of the last event
Cooling == out.now - out.ended_before <= cfg.cooldown

IdleFrame == out.kind = "frame" /\ ~out.was_capturing

\* C1 as stated: a closed recording is handed to the encoder exactly when it
\* has at least 2 frames and its last frame is later than its first
C1_PositiveDuration ==
  Terminated =>
    (out.handed <=> (Len(out.seg) >= 2 /\ SegDuration > 0))

\* C1: a closed recording is handed to the encoder exactly when it has at
\* least 2 frames, whatever its duration; the frames handed are those of
\* the recording, the target frame rate is used when the duration is not
\* positive, and a recording of fewer than 2 frames is discarded
C1_HandoffMinFrames ==
  /\ Terminated => (out.handed <=> Len(out.seg) >= 2)
  /\ out.handed =>
       /\ out.handoff.frames = out.seg
       /\ out.handoff.target_fps_used <=> ~(SegDuration > 0)
  /\ ~out.handed => out.handoff = NoHandoff

\* a recording of two frames read at the same clock reading was handed off
C1_Witness ==
  /\ Terminated /\ out.handed
  /\ Len(out.seg) >= 2 /\ SegDuration = 0

\* C2: while an event is being captured the priority of its type never
\* decreases from one step to the next, and the type given to the encoder
\* at a hand-off is person_detected, dwell_alert or tripwire_alert and is
\* not below the type before the step
C2_TypeMonotone ==
  /\ (out.was_capturing /\ ep.is_capturing_event) =>
        Priority(ep.current_event_type) >= Priority(out.type_before)
  /\ ep.is_capturing_event => ep.current_event_type \in EventTypes
  /\ out.handed =>
        /\ out.handoff.type \in EventTypes
        /\ Priority(out.handoff.type) >= Priority(out.type_before)

\* the type of an event being captured was raised by a frame
C2_Witness ==
  /\ out.kind = "frame" /\ out.was_capturing /\ ep.is_capturing_event
  /\ Priority(ep.current_event_type) > Priority(out.type_before)
  /\ out.type_before \in EventTypes

\* C3: a frame taken while Idle and within COOLDOWN_PERIOD of the end of the
\* last event starts no event, whatever triggers fire on it
C3_NoStartWhileCooling ==
  (IdleFrame /\ Cooling) => (~ep.is_capturing_event /\ ~out.started)

\* a tripwire or dwell trigger fired on a frame with a person while Cooling
C3_Witness ==
  /\ IdleFrame /\ Cooling
  /\ out.trig # {} /\ out.person
  /\ ~ep.is_capturing_event

\* C4 as stated: a trigger on a frame taken while Idle starts an event on
\* that frame
C4_TriggerAloneStarts ==
  (IdleFrame /\ out.trig # {}) => ep.is_capturing_event

\* C4: a frame taken while Idle on which a trigger fires is a frame with a
\* person, and it starts an event exactly when the cooldown is over; without
\* a trigger an event starts exactly when a person is present and the
\* cooldown is over
C4_StartNeedsCooldownOver ==
  /\ (IdleFrame /\ out.trig # {}) =>
        /\ out.person
        /\ ep.is_capturing_event <=> ~Cooling
  /\ IdleFrame => (ep.is_capturing_event <=> (out.person /\ ~Cooling))
  /\ IdleFrame => (out.started <=> ep.is_capturing_event)

\* a trigger fired on a frame taken while Idle after an earlier event, the
\* cooldown was over and the event started
C4_Witness ==
  /\ IdleFrame /\ out.trig # {}
  /\ out.ended_before > 0
  /\ ~Cooling /\ ep.is_capturing_event

\* C5 as stated: every hand-off made because an event ended, by absence or
\* by duration, sets event_ended and sets last_event_ended_time to now
C5_EveryTerminationSetsFlag ==
  (out.handed /\ out.ended # "none") =>
     (out.flag /\ ep.last_event_ended_time = out.now)

\* C5: an end by absence sets event_ended, sets last_event_ended_time to
\* now and leaves Capturing; an end by duration (segmentation) sets neither
\* and stays Capturing; the hand-off made on leaving the loop sets neither
C5_AbsenceSetsFlag ==
  /\ out.ended = "absence" =>
        /\ out.flag
        /\ ep.last_event_ended_time = out.now
        /\ ~ep.is_capturing_event
  /\ out.ended = "duration" =>
        /\ ~out.flag
        /\ ep.last_event_ended_time = out.ended_before
        /\ ep.is_capturing_event
  /\ out.kind = "exit" =>
        (~out.flag /\ ep.last_event_ended_time = out.ended_before)

\* a recording was handed off at an end by absence
C5_Witness ==
  /\ out.ended = "absence" /\ out.handed
  /\ out.flag /\ ep.last_event_ended_time = out.now

\* C6 as stated: when a frame F taken while Capturing finds the event longer
\* than MAX_EVENT_DURATION, a recording handed off ends with F, the event
\* processor stays Capturing, and the new recording is exactly the last K
\* frames of the one just closed, K being the capacity of the ring buffer
\* (all of its frames only when it has fewer than K)
C6_SeedIsLastK ==
  (out.kind = "frame" /\ out.ended = "duration") =>
     /\ ep.is_capturing_event
     /\ out.handed => out.handoff.frames[Len(out.handoff.frames)].id = out.frame
     /\ ep.event_recording = LastK(out.seg, BufferSize(cfg))

\* C7 as stated: a timeout of the queue read while Capturing ends the event
\* by absence on that timeout: back to Idle, event_ended set
C7_TimeoutFinalizes ==
  (out.kind = "timeout" /\ out.was_capturing) =>
     /\ out.ended = "absence"
     /\ ~ep.is_capturing_event
     /\ out.flag

\* C7: a timeout of the queue read while Capturing evaluates the event with
\* no person present at the time of the timeout: the event ends by absence
\* (recording handed off or discarded, back to Idle, event_ended set)
\* exactly when more than POST_EVENT_SECONDS have passed since a person was
\* last seen, and otherwise the event processor stays Capturing
C7_TimeoutChecksAbsence ==
  (out.kind = "timeout" /\ out.was_capturing) =>
     /\ out.ended = "absence" <=>
          out.now - ep.last_person_seen_time > cfg.post
     /\ out.ended = "absence" =>
          /\ ~ep.is_capturing_event /\ out.flag
          /\ out.handed <=> Len(out.seg) >= 2
     /\ out.ended # "absence" => ep.is_capturing_event

\* a timeout while Capturing ended the event by absence
C7_Witness ==
  /\ out.kind = "timeout" /\ out.was_capturing
  /\ out.ended = "absence" /\ ~ep.is_capturing_event /\ out.flag

\* C8 as stated: the inference queue never holds more than 2 frames and the
\* event queue never more than int(TARGET_FPS * (PRE + POST) * 2.0) frames
C8_QueuesBounded ==
  /\ Len(inference_queue) <= InferenceQueueSize
  /\ Len(event_queue) <= EventQueueSize(cfg)

IdsIncrease(q) == \A i \in 1 .. Len(q) - 1 : q[i].id < q[i + 1].id
TimesNonDecreasing(q) == \A i \in 1 .. Len(q) - 1 : q[i].time <= q[i + 1].time

Published == inf'.published # inf.published

\* C11 as stated: every frame the inference stage has taken from its queue
\* was published to shared_state exactly once, the frames whose analysis
\* raised an exception included
C11_OnePublishPerFrame == inf.published = inf.frame_counter

Running == sup.pc # "exited"

\* CameraWorker.is_alive: the video streamer thread is alive
is_alive == decoder # "done"

\* RTSPRunner.run: time.sleep, then the test of all(w.is_alive()), after
\* start_workers and at every HEALTH_CHECK_INTERVAL of the loop
SupHealthCheck ==
  /\ sup.pc \in {"startup", "monitor"}
  /\ sup.checks < MaxChecks
  /\ UNCHANGED xvars
  /\ sup' = IF is_alive
            THEN [sup EXCEPT !.pc = "monitor", !.checks = @ + 1]
            ELSE [sup EXCEPT !.pc = "shutdown", !.checks = @ + 1,
                             !.stop_event = TRUE]
  /\ UNCHANGED <<pvars, rvars>>

\* main: KeyboardInterrupt or SystemExit while runner.run() sleeps
SupInterrupt ==
  /\ sup.pc \in {"startup", "monitor"}
  /\ UNCHANGED xvars
  /\ sup' = [sup EXCEPT !.pc = "shutdown"]
  /\ UNCHANGED <<pvars, rvars>>

\* BaseRunner.shutdown, CameraWorker.stop: video_streamer.stop() sets
\* stopped and joins the thread for THREAD_JOIN_TIMEOUT at most
SupStopStreamer ==
  /\ sup.pc = "shutdown"
  /\ stopped' = TRUE
  /\ UNCHANGED xvars
  /\ sup' = [sup EXCEPT !.pc = "stop_processors"]
  /\ UNCHANGED <<cfg, clock, decoder, nframes, inference_queue, event_queue,
                 stop_event, shared_state, inf, ep, epc, out, hist, rvars>>

\* CameraWorker.stop: processor.stop() sets the stop_event of the two
\* processors; the encoder threads that are alive are counted for a log line
SupStopProcessors ==
  /\ sup.pc = "stop_processors"
  /\ stop_event' = TRUE
  /\ UNCHANGED xvars
  /\ sup' = [sup EXCEPT !.pc = "exit"]
  /\ UNCHANGED <<cfg, clock, stopped, decoder, nframes, inference_queue,
                 event_queue, shared_state, inf, ep, epc, out, hist, rvars>>

\* main returns after runner.shutdown(): the interpreter exits, the threads
\* that are still running are daemon threads and end with it
SupExit ==
  /\ sup.pc = "exit"
  /\ UNCHANGED xvars
  /\ sup' = [sup EXCEPT !.pc = "exited"]
  /\ UNCHANGED <<pvars, rvars>>

\* the inference thread ends with an error that `except Exception` does not
\* catch
InfDie ==
  /\ inf.pc \in {"check", "get"}
  /\ inf' = [inf EXCEPT !.pc = "done"]
  /\ UNCHANGED <<cfg, clock, stopped, decoder, nframes, inference_queue,
                 event_queue, stop_event, shared_state, ep, epc, out, hist,
                 rvars, sup, xvars>>

\* the event thread ends with an error that `except Exception` does not
\* catch
EvtDie ==
  /\ epc.pc \in {"check", "get"}
  /\ epc' = [epc EXCEPT !.pc = "done"]
  /\ UNCHANGED <<cfg, clock, stopped, decoder, nframes, inference_queue,
                 event_queue, stop_event, shared_state, inf, ep, out, hist,
                 rvars, sup, xvars>>

\* the threads of the process, which run until it exits
SupDecoderEnd == Running /\ DecoderEnd
SupInfDie     == Running /\ InfDie
SupEvtDie     == Running /\ EvtDie
SupInfCheck   == Running /\ InfCheck
SupInfTimeout == Running /\ InfTimeout
SupEvtCheck   == Running /\ EvtCheck
SupEvtTimeout == Running /\ EvtTimeout
SupEvtExit    == Running /\ EvtExit
SupRecorder   == Running /\ RecNext /\ nrec' <= MaxSupRecordings

SupNext ==
  \/ SupHealthCheck
  \/ SupInterrupt
  \/ SupStopStreamer
  \/ SupStopProcessors
  \/ SupExit
  \/ SupDecoderEnd
  \/ SupInfDie
  \/ SupEvtDie
  \/ SupInfCheck
  \/ SupInfTimeout
  \/ SupEvtCheck
  \/ SupEvtTimeout
  \/ SupEvtExit
  \/ SupRecorder

\* the main thread, the worker threads without frames, the encoder threads
SupInit == InitWith({c \in Configs : c.dir = "both"}, {<<>>}, {1})

SpecSup == SupInit /\ [][SupNext]_vars

\* ---------------------------------------------------------------- recorder
\* the encoder thread that returned last had a failed encoder
EncoderFailed == rout.rec # 0 /\ rout.returncode # 0

\* the Event rows of the recording of the encoder thread that returned last
EventsOfLast == {e \in events : e.rec = rout.rec}

\* C13: when the encoder failed for a recording (exit code other than 0),
\* no Event row is persisted and no notification is scheduled for it
C13_FailedEncodeIsSilent ==
  EncoderFailed => EventsOfLast = {} /\ rout.rec \notin notifications

\* C14: when the encoder failed for a recording, the Re-ID reconciliation of
\* that recording has committed nothing to the gallery
C14_FailedEncodeNoReidCommit ==
  EncoderFailed => rout.reid # "committed"

\* the Event row of the last recording with a null person id
NullEvent == [rec |-> rout.rec, person_id |-> 0]

\* an encoder thread rolls its Re-ID transaction back in this step
RollsBack(t) == enc[t].pc = "commit" /\ enc'[t].reid = "rolled_back"

Commits(t) == enc[t].pc = "commit" /\ enc'[t].reid = "committed"

\* C16: a reconciliation that commits adds exactly 1 to the sighting_count
\* of every Person that existed before and was matched by one or more of
\* the event's clusters, and leaves the sighting_count of the others as
\* it was
C16_OneSightingPerPerson ==
  [][\A t \in Threads : Commits(t) =>
       \A k \in 1 .. Len(gallery) :
         gallery'[k].sighting_count =
           gallery[k].sighting_count
             + (IF k <= enc[t].changes.n0 /\ enc[t].changes.incs[k] > 0
                THEN 1 ELSE 0)]_vars

\* C17: in every committed gallery state every Person has at least one
\* PersonFeature, whatever the order and interleaving of the
\* reconciliations, rolled back or not
C17_EveryPersonHasFeature ==
  \A k \in 1 .. Len(gallery) : gallery[k].features # <<>>

C17_Witness ==
  /\ Len(gallery) >= 2
  /\ rout.reid = "rolled_back"
  /\ \E t \in Threads : enc[t].reid = "committed"

\* C18: the person_id of every Event row is null or the id of a Person row
\* of the committed gallery
C18_EventPersonExists ==
  \A e \in events : e.person_id = 0 \/ e.person_id \in 1 .. Len(gallery)

C18_Witness ==
  /\ \E e \in events : e.person_id = Len(gallery) /\ e.person_id > 0
  /\ \E e \in events : e.person_id = 0 /\ e.rec = rout.rec
  /\ rout.reid = "rolled_back"

\* -------------------------------------------------------------- supervisor
\* a worker thread of the pipeline has ended
WorkerDead == decoder = "done" \/ inf.pc = "done" \/ epc.pc = "done"

\* C19: a health check made while the decoder, the inference thread or the
\* event thread is dead signals the global shutdown
C19_HealthCheckSeesDeadWorker ==
  [][sup'.checks # sup.checks /\ WorkerDead => sup'.stop_event]_vars

\* C20: the process does not reach its exit while an encoder thread is
\* still running
C20_NoExitWhileEncoding ==
  sup.pc = "exited" => \A t \in Threads : enc[t].pc = "idle"

\* ---------------------------------------------------------------- shutdown
\* the inference thread leaves its loop in this step
InfLeaves == inf.pc # "done" /\ inf'.pc = "done"

\* the event thread leaves its loop in this step
EvtLeaves == epc.pc # "exit" /\ epc'.pc = "exit"

\* C21: a stage worker leaves its loop after the stop flag was set only when
\* its input queue is empty
C21_WorkersDrainQueues ==
  [][/\ InfLeaves => inference_queue = <<>>
     /\ EvtLeaves => event_queue = <<>>]_vars

\* ------------------------------------------------------------ output files
\* ffmpeg is writing the output file of the encoder thread
Writing(t) == enc[t].pc = "encode"

\* C22: two encoder threads never write the same output file at the same time
C22_DistinctOutputFiles ==
  \A t, u \in Threads :
    t # u /\ Writing(t) /\ Writing(u) => enc[t].save_path # enc[u].save_path

\* ----------------------------------------------------------------- tracker
\* C23: an inference worker whose tracker could not be constructed analyses
\* no frame and publishes nothing
C23_NoTrackerNoFrames ==
  inf.tracker = NoTracker => inf.published = 0

\* ---------------------------------------------------------------- tripwire
\* p lies on the line through the two ends of the tripwire
Collinear(p) ==
  \E k \in -3 .. 3, m \in 1 .. 3 :
    /\ m * (p[1] - TripP1[1]) = k * (TripP2[1] - TripP1[1])
    /\ m * (p[2] - TripP1[2]) = k * (TripP2[2] - TripP1[2])

Side(p) == get_point_side_of_line(p, TripP1, TripP2)

\* the tracks of the last frame that were seen on the frame before
Moved == IF out.kind = "tripwire"
         THEN DOMAIN out.tracks \cap DOMAIN out.last ELSE {}

\* C24: the side of every point collinear with the tripwire is 0, and a
\* movement that starts or ends on side 0 raises no tripwire trigger and does
\* not add the track to tripwire_alert_ids
C24_TiesDoNotTrigger ==
  /\ \A p \in TripPos : Collinear(p) => Side(p) = 0
  /\ \A i \in Moved :
       Side(out.last[i]) = 0 \/ Side(out.tracks[i]) = 0 =>
         /\ i \notin out.alerts
         /\ i \in ep.tripwire_alert_ids => i \in out.ids_before
  /\ out.kind = "tripwire" /\ out.alerts = {} =>
       ep.current_event_type = out.type_before

C24_Witness ==
  /\ out.kind = "tripwire"
  /\ 1 \in Moved
  /\ out.last[1] = <<1, 1>> /\ out.tracks[1] = <<2, 1>>
  /\ 1 \notin ep.tripwire_alert_ids
  /\ ep.current_event_type = "None"

\* the sides of the tripwire (1,0) -> (1,2) in screen coordinates
LeftOfLine(p) == p[1] > 1
RightOfLine(p) == p[1] < 1

\* C25: a tripwire trigger is raised only for a movement across the line in
\* a direction the rule admits: left to right for cross_to_right, right to
\* left for cross_to_left, either for both
C25_DirectionAdmitted ==
  \A i \in Moved :
    i \in out.alerts =>
      \/ /\ cfg.dir \in {"cross_to_right", "both"}
         /\ LeftOfLine(out.last[i]) /\ RightOfLine(out.tracks[i])
      \/ /\ cfg.dir \in {"cross_to_left", "both"}
         /\ RightOfLine(out.last[i]) /\ LeftOfLine(out.tracks[i])

C25_Witness ==
  /\ cfg.dir = "cross_to_right"
  /\ 1 \in Moved /\ 2 \in Moved
  /\ out.last[1] = <<0, 1>> /\ out.tracks[1] = <<2, 1>>
  /\ out.last[2] = <<2, 1>> /\ out.tracks[2] = <<0, 1>>
  /\ out.alerts = {2}
  /\ ep.tripwire_alert_ids = {2}
  /\ ep.current_event_type = "tripwire_alert"

\* ------------------------------------------------------------------- dwell
\* C26: in one residence of a track in the ROI there is at most one dwell
\* alert, it has been raised exactly when a frame later than the entry by
\* more than the threshold was processed, and the entry of a track that left
\* the ROI or disappeared is dropped
C26_OneDwellAlertPerResidence ==
  out.kind = "dwell" =>
    \A i \in TripIds :
      /\ out.res[i].alerts <= 1
      /\ out.res[i].inside =>
           /\ i \in DOMAIN ep.dwell_time_trackers
           /\ ep.dwell_time_trackers[i].start_time = out.res[i].entry
           /\ out.res[i].alerts = 1 <=> out.now - out.res[i].entry > cfg.dwell
      /\ ~out.res[i].inside => i \notin DOMAIN ep.dwell_time_trackers
      /\ i \in out.alerts => ep.current_event_type = "dwell_alert"

C26_Witness ==
  /\ out.kind = "dwell"
  /\ cfg.dwell = 1
  /\ out.res[1].inside /\ out.res[1].alerts = 1 /\ 1 \notin out.alerts
  /\ out.now - out.res[1].entry = 3
  /\ out.res[2].inside /\ out.res[2].alerts = 0
  /\ out.res[2].entry > out.res[1].entry

\* ---------------------------------------------------------------- snapshot
\* C27: for a frame processed while an event is captured, the features read
\* from SharedState belong to the publish the tracks, the person flag and
\* the ROI status were read from
C27_OneSnapshot ==
  out.kind = "frame" /\ out.was_capturing /\ "reid" \in DOMAIN out =>
    /\ out.reid_published = out.snap_published
    /\ out.reid = out.snap_reid

\* ----------------------------------------------------------- tracker reset
\* the inference worker takes a frame from its queue and analyses it
InfAnalyses == inf'.frame_counter # inf.frame_counter
\* event_ended goes from set to cleared
FlagCleared == shared_state.event_ended /\ ~shared_state'.event_ended

\* C28: a frame taken from the inference queue while event_ended is set is
\* not analysed before the tracker is created anew, and event_ended is
\* cleared only together with a new tracker session
C28_FreshTrackerAfterEventEnd ==
  [][/\ InfAnalyses => ~shared_state.event_ended
     /\ FlagCleared => inf'.tracker # inf.tracker]_vars

\* ------------------------------------------------------------ segmentation
\* the type of highest priority among the triggers raised on a frame,
\* person_detected when there is none
TypeOfTriggers(trig) ==
  CHOOSE t \in trig \cup {"person_detected"} :
    \A u \in trig \cup {"person_detected"} : Priority(t) >= Priority(u)

\* C29: after a segmentation by duration the type of the new segment is the
\* one of the triggers raised on the frame that caused it, person_detected
\* when none was raised
C29_SegmentTypeRecomputed ==
  out.ended = "duration" =>
    ep.current_event_type = TypeOfTriggers(out.trig)

\* ------------------------------------------------------------- event start
\* C30: when an event starts, event_start_time is the capture time of the
\* frame that started it
C30_EventStartsNow ==
  out.started => ep.event_start_time = out.now

\* ------------------------------------------------------ start of an event
\* C31: right after an event has started, current_event_features and
\* tripwire_alert_ids are both empty
C31_StartClearsFeaturesAndAlerts ==
  out.started =>
    /\ ep.current_event_features = <<>>
    /\ ep.tripwire_alert_ids = {}

\* -------------------------------------------------------------- clustering

\* the place of feature f in the list s
PlaceIn(s, f) == CHOOSE i \in 1 .. Len(s) : s[i] = f

\* the representatives of the clusters made before the feature at place k
\* of the deduplicated list was handled
RepsBefore(k) ==
  {out.clusters[i][1] : i \in {j \in 1 .. Len(out.clusters) :
                                 PlaceIn(out.unique, out.clusters[j][1]) < k}}

\* C32: identical features appear once, every distinct feature is in exactly
\* one cluster, clusters are in the order of their creation, and a feature
\* starts a cluster exactly when it is less than 0.90 similar to every
\* representative so far (similarities are in hundredths: 90), joining the
\* cluster of the most similar representative otherwise
C32_IntraEventClusters ==
  out.kind = "clusters" =>
    /\ Range(out.unique) = Range(out.features)
    /\ Cardinality(Range(out.unique)) = Len(out.unique)
    /\ \A f \in Range(out.unique) :
         Cardinality({<<i, j>> \in (1 .. Len(out.clusters)) \X (1 .. Len(out.unique)) :
                        j <= Len(out.clusters[i]) /\ out.clusters[i][j] = f}) = 1
    /\ \A i, j \in 1 .. Len(out.clusters) :
         i < j => PlaceIn(out.unique, out.clusters[i][1])
                    < PlaceIn(out.unique, out.clusters[j][1])
    /\ \A k \in 1 .. Len(out.unique) :
         LET f == out.unique[k]
             mine == CHOOSE i \in 1 .. Len(out.clusters) :
                       f \in Range(out.clusters[i])
         IN /\ out.clusters[mine][1] = f <=>
                 \A r \in RepsBefore(k) : cosine_similarity(f, r) < 90
            /\ out.clusters[mine][1] # f =>
                 \A r \in RepsBefore(k) :
                   cosine_similarity(f, r)
                     <= cosine_similarity(f, out.clusters[mine][1])

\* ------------------------------------------------- features of an event
\* the recording and the features given to the encoder by the last step
Handed == IF out.kind \in {"frame", "timeout", "exit"} /\ out.handed
          THEN out.handoff ELSE NoHandoff

\* C33: every feature handed to the encoder with an event was extracted from
\* a frame no older than the oldest frame of the recording of this event
C33_FeaturesOfThisEvent ==
  \A i \in 1 .. Len(Handed.features) :
    Handed.features[i].frame >= Handed.frames[1].id

\* ------------------------------------------------- recordings of two events
\* C34: an event does not start with a frame in its recording that was
\* captured before the previous event ended
C34_SeedAfterPreviousEvent ==
  out.kind = "frame" /\ out.started =>
    \A i \in 1 .. Len(ep.event_recording) :
      ep.event_recording[i].time >= ep.last_event_ended_time

\* C35: an event that starts on a frame raising no trigger has the type
\* person_detected
C35_StartTypeFromStartFrame ==
  out.kind = "frame" /\ out.started /\ out.trig = {} =>
    ep.current_event_type = "person_detected"

\* ------------------------------------------------- duration of a segment
\* the last step started an event or a new segment of one
Seeded == out.kind \in {"frame", "timeout"}
            /\ (out.started \/ out.ended = "duration")

\* C36: when MAX_EVENT_DURATION exceeds 1.5 * PRE_EVENT_SECONDS, the event
\* or segment just seeded is not already longer than MAX_EVENT_DURATION
C36_SeededWithinDuration ==
  Seeded /\ 2 * cfg.maxdur > 3 * cfg.pre =>
    out.now - ep.event_start_time <= cfg.maxdur

\* ------------------------------------------------- crossing over frames
\* p lies on the tripwire itself
OnTripwire(p) == p[1] = TripP1[1] /\ p[2] \in TripP1[2] .. TripP2[2]

\* the rule of the tripwire admits a movement from p to q
Admitted(p, q) ==
  \/ cfg.dir \in {"cross_to_right", "both"} /\ LeftOfLine(p) /\ RightOfLine(q)
  \/ cfg.dir \in {"cross_to_left", "both"} /\ RightOfLine(p) /\ LeftOfLine(q)

\* track i was on one side two frames ago, on the tripwire on the last frame
\* and is on the other side on the frame now processed
CrossesViaLine(i) ==
  /\ i \in Moved
  /\ OnTripwire(out.tracks[i])
  /\ out'.kind = "tripwire"
  /\ i \in DOMAIN out'.tracks
  /\ Admitted(out.last[i], out'.tracks[i])

\* track i is on the other side than on the frame before, across the tripwire
CrossesDirectly(i) ==
  /\ i \in Moved
  /\ Admitted(out.last[i], out.tracks[i])
  /\ Intersects(out.last[i], out.tracks[i], TripP1, TripP2)

\* C37: a track that goes from one side of the tripwire to the other in an
\* admitted direction raises a tripwire trigger, on the frame that takes it
\* across directly and also on the frame that takes it off the line when a
\* frame in between showed it exactly on the line
C37_CrossingRaisesTrigger ==
  [][\A i \in TripIds :
       /\ CrossesDirectly(i)' => i \in out'.alerts
       /\ CrossesViaLine(i) => i \in out'.alerts]_vars

\* ------------------------------------------------- the SharedState lock
\* the positions of the two threads inside a "with self.state_lock:" block,
\* and those where they wait to enter one
InfInBlock == inf.pc \in {"in_check", "in_publish"}
EvtInBlock == epc.pc \in {"in_snap", "in_reid", "in_flag"}
InfAtLock == inf.pc \in {"acquire_check", "acquire_publish"}
EvtAtLock == epc.pc \in {"acquire_snap", "acquire_reid", "acquire_flag"}

\* the step a thread inside a block takes next
InfBlockStep == LkInfCheckFlag \/ LkInfPublish
EvtBlockStep == LkEvtSnap \/ LkEvtReid \/ LkEvtSetFlag
\* the step a thread that waits for the lock takes next
InfLockStep == LkInfAcquireCheck \/ LkInfAcquirePublish
EvtLockStep == LkEvtAcquireSnap \/ LkEvtAcquireReid \/ LkEvtAcquireFlag

\* the values the event worker has read from shared_state
EvtValuesRead == IF "ss" \in DOMAIN epc THEN epc.ss ELSE NoSnapshot

\* C38: the lock is held by a thread exactly while it is inside one of its
\* blocks (so never by two threads, and a thread that waits for it does not
\* hold it); the thread inside a block can always take its next step and
\* leave it; a thread that waits for the lock, or the holder, can always
\* move; shared_state is written, and its values are read by the event
\* worker, only in steps of the thread that holds the lock
C38_SharedStateUnderLock ==
  /\ [](/\ state_lock = "inf" <=> InfInBlock
        /\ state_lock = "evt" <=> EvtInBlock
        /\ InfInBlock => ENABLED InfBlockStep
        /\ EvtInBlock => ENABLED EvtBlockStep
        /\ InfAtLock => ENABLED InfLockStep \/ ENABLED EvtBlockStep
        /\ EvtAtLock => ENABLED EvtLockStep \/ ENABLED InfBlockStep)
  /\ [][/\ shared_state' # shared_state =>
             /\ state_lock # "free"
             /\ state_lock' = "free"
             /\ state_lock = "inf" => inf'.pc # inf.pc
             /\ state_lock = "evt" => epc'.pc # epc.pc
        /\ EvtValuesRead' # EvtValuesRead /\ EvtValuesRead' # NoSnapshot =>
             state_lock = "evt"]_vars

C38_Witness ==
  /\ state_lock = "evt" /\ epc.pc = "in_flag"
  /\ inf.pc = "acquire_publish"
  /\ ~shared_state.event_ended

\* C39  every notification accepted by schedule_notification is waited for
\*      by stop() before the client is closed: once the client is closed,
\*      every future handed to the event loop is one stop() has called
\*      result() on
C39_AcceptedAreWaitedFor == dn.closed => dn.accepted \subseteq dn.waited

\* C40  once stop is signalled and the decoder has stopped enqueuing frames
\*      the EventProcessor thread eventually terminates; the step that leaves
\*      the thread with an event in progress of at least two recorded frames
\*      hands exactly that recording to an encoder, and nothing is handed
\*      over and nothing recorded once the thread has terminated
Terminating == epc.pc # "done" /\ epc'.pc = "done"

====
